---- MODULE Spec2Model ----
(***************************************************************************)
(* StretchBreak: the idle monitor of src/backend/idle_monitoring.rs.       *)
(*                                                                         *)
(* Timestamps and durations are integers counted in ticks of               *)
(* 1/TicksPerSecond of a second (chrono's DateTime and Duration carry a    *)
(* sub-second part, and the code truncates it in places with               *)
(* num_seconds()).  The two settings are whole seconds, as in the code.    *)
(***************************************************************************)
EXTENDS Integers, FiniteSets, Sequences, TLC

\* ---------------------------------------------------------------- bounds

\* Resolution of the model's clock: ticks per second.
TicksPerSecond == 2

\* Calls made on the monitor after IdleMonitor::new.
MaxCalls == 3

\* Calls made after IdleMonitor::new in the runs that only tick and override.
MaxTickCalls == 4

\* Calls made after IdleMonitor::new in the runs of a monitor started without
\* a state file.
MaxFreshCalls == 5

\* Calls made before the user starts to rest, in the runs of a resting user.
MaxSetupCalls == 3

\* Refreshes a resting user's run makes beyond one for every tick of the
\* longest break.
SpareRestCalls == 2

\* Calls made in the runs that follow the monitor loop's break-end sound.
MaxSoundCalls == 4

\* ------------------------------------------------------ program constants

DEFAULT_TIME_TO_BREAK_SECS == 1200

DEFAULT_BREAK_LENGTH_SECS == 90

REQUIRED_PREBREAK_IDLE_STREAK_SECONDS == 5

FRAME_DROP_CUTOFF_POINT_SECS == 30

TRANSITION_THRESHOLD_SECS == 3

END_OF_ACTIVE_PUSHING_TRANSITION_WINDOW == TRANSITION_THRESHOLD_SECS - 2

\* ------------------------------------------------------------- durations

\* Duration::seconds(n)
Seconds(n) == n * TicksPerSecond

\* Duration::num_seconds(): whole seconds, truncated towards zero.
NumSeconds(d) == IF d >= 0 THEN d \div TicksPerSecond
                 ELSE -((-d) \div TicksPerSecond)

Min(a, b) == IF a <= b THEN a ELSE b

\* ------------------------------------------------------------ input sets

\* Time that passes between two calls while the machine is running.
Deltas == {0, 1, Seconds(1) + 1}

\* Time that passes between two calls when the machine was suspended.
SuspendDeltas == {Seconds(FRAME_DROP_CUTOFF_POINT_SECS) + 1}

\* Time that passes between two reads of the clock inside one call, and
\* between a refresh and a call made from the user interface.
ReadGaps == {0, 1}

IdleSamples == {0, 1, 4, 5}

\* Values given to set_time_to_break and set_break_length (seconds).
TimeToBreakChoices == {0, 1}

BreakLengthChoices == {0, 1}

\* postpone_break durations.
PostponeChoices == {Seconds(1), Seconds(60)}

\* snooze(t): t lies this far after the clock.
SnoozeSpans == {Seconds(1)}

\* ----------------------------------------------------------------- state

VARIABLES
    clock,      \* the value the clock returned at its last read
    info,       \* IdleMonitor.last_idle_info
    pre,        \* last_idle_info before the last operation
    lastOp,     \* the last operation and its input
    ret,        \* what the last operation returned
    disk,       \* the state file, when its content is followed
    calls,      \* how many calls were made on the monitor
    budget,     \* how many calls this run makes
    grace,      \* the last effective postpone_break: when, and for how long
    pending,    \* the snapshot the monitor loop exported and has yet to write
    loop        \* the monitor loop's previous_idle_info and whether its last
                \* iteration played the break-end sound, when they are followed

vars == <<clock, info, pre, lastOp, ret, disk, calls, budget, grace, pending, loop>>

\* DebouncedIdleState
Idle(idle_since) == [state |-> "Idle", idle_since |-> idle_since]

IdleGoingToActive(idle_since, transitioning_since) ==
    [state |-> "IdleGoingToActive", idle_since |-> idle_since,
     transitioning_since |-> transitioning_since]

ActiveGoingToIdle(active_since, transitioning_since) ==
    [state |-> "ActiveGoingToIdle", active_since |-> active_since,
     transitioning_since |-> transitioning_since]

Active(active_since) == [state |-> "Active", active_since |-> active_since]

is_user_active(s) == s.state \in {"Active", "ActiveGoingToIdle"}

\* ModeState
Normal(progress_towards_break, progress_towards_reset, idle_state) ==
    [state |-> "Normal",
     progress_towards_break |-> progress_towards_break,
     progress_towards_reset |-> progress_towards_reset,
     idle_state |-> idle_state]

PreBreak(started_at) == [state |-> "PreBreak", started_at |-> started_at]

Break(progress_towards_finish, idle_state) ==
    [state |-> "Break",
     progress_towards_finish |-> progress_towards_finish,
     idle_state |-> idle_state]

\* PresenceMode
PresenceActive == [type |-> "active"]

SnoozedUntil(t) == [type |-> "snoozed_until", value |-> t]

Muted == [type |-> "muted"]

\* IdleInfo
IdleInfo(idle_since_seconds, last_checked, last_mode_state, reading_mode, presence_mode, time_to_break_secs, break_length_secs, overrun) ==
    [idle_since_seconds |-> idle_since_seconds,
     last_checked |-> last_checked,
     last_mode_state |-> last_mode_state,
     reading_mode |-> reading_mode,
     presence_mode |-> presence_mode,
     time_to_break_secs |-> time_to_break_secs,
     break_length_secs |-> break_length_secs,
     overrun |-> overrun]

is_muted(self) == self.presence_mode.type # "active"

\* Option<PersistableState>
None == [some |-> FALSE]

Some(state) == [some |-> TRUE, state |-> state]

\* PersistableState
PersistableState(progress_towards_break, progress_towards_reset, last_checked, presence_mode, reading_mode, time_to_break_secs, break_length_secs) ==
    [progress_towards_break |-> progress_towards_break,
     progress_towards_reset |-> progress_towards_reset,
     last_checked |-> last_checked,
     presence_mode |-> presence_mode,
     reading_mode |-> reading_mode,
     time_to_break_secs |-> time_to_break_secs,
     break_length_secs |-> break_length_secs]

\* use_restored_timers of IdleMonitor::new
UseRestoredTimers(time, restored_state) ==
    /\ restored_state.some
    /\ (time - restored_state.state.last_checked)
           + restored_state.state.progress_towards_reset
         < Seconds(DEFAULT_BREAK_LENGTH_SECS)

\* IdleMonitor::new; time is what the clock returns.
New(time, restored_state) ==
    LET use_restored_timers == UseRestoredTimers(time, restored_state)
        state == restored_state.state
    IN  IdleInfo(
            0,
            time,
            Normal(IF use_restored_timers
                   THEN state.progress_towards_break ELSE 0,
                   IF use_restored_timers
                   THEN Min(Seconds(DEFAULT_BREAK_LENGTH_SECS),
                            state.progress_towards_reset
                                + (time - state.last_checked))
                   ELSE 0,
                   IF use_restored_timers
                   THEN Idle(state.last_checked) ELSE Active(time)),
            IF restored_state.some THEN state.reading_mode ELSE FALSE,
            IF restored_state.some THEN state.presence_mode ELSE PresenceActive,
            IF restored_state.some THEN state.time_to_break_secs
            ELSE DEFAULT_TIME_TO_BREAK_SECS,
            IF restored_state.some THEN state.break_length_secs
            ELSE DEFAULT_BREAK_LENGTH_SECS,
            0)

\* ------------------------------------------------------------- debouncing

\* _make_debounced_idle_state that pays no attention to reading mode.
MakeDebouncedIdleStateIgnoresReadingMode(self, idle_since_seconds, last_idle_state, time_since_last_check, check_time, start_of_transition_period, in_break) ==
    IF is_user_active(last_idle_state)
       /\ time_since_last_check > Seconds(FRAME_DROP_CUTOFF_POINT_SECS)
    THEN Idle(check_time)
    ELSE IF last_idle_state.state = "Active"
    THEN IF idle_since_seconds = 0
         THEN Active(last_idle_state.active_since)
         ELSE ActiveGoingToIdle(last_idle_state.active_since, check_time)
    ELSE IF last_idle_state.state = "ActiveGoingToIdle"
    THEN IF idle_since_seconds = 0
         THEN Active(last_idle_state.active_since)
         ELSE IF idle_since_seconds \in 1 .. TRANSITION_THRESHOLD_SECS
              THEN ActiveGoingToIdle(last_idle_state.active_since,
                                     last_idle_state.transitioning_since)
              ELSE Idle(check_time)
    ELSE IF last_idle_state.state = "IdleGoingToActive"
    THEN IF idle_since_seconds \in 0 .. END_OF_ACTIVE_PUSHING_TRANSITION_WINDOW
            /\ last_idle_state.transitioning_since <= start_of_transition_period
         THEN Active(check_time)
         ELSE IF last_idle_state.transitioning_since <= start_of_transition_period
              THEN Idle(last_idle_state.idle_since)
              ELSE IdleGoingToActive(last_idle_state.idle_since,
                                     last_idle_state.transitioning_since)
    ELSE IF idle_since_seconds = 0
         THEN IdleGoingToActive(last_idle_state.idle_since, check_time)
         ELSE Idle(last_idle_state.idle_since)

\* _make_debounced_idle_state that restarts active_since on every active sample.
MakeDebouncedIdleStateRestartsActive(self, idle_since_seconds, last_idle_state, time_since_last_check, check_time, start_of_transition_period, in_break) ==
    IF is_user_active(last_idle_state)
       /\ time_since_last_check > Seconds(FRAME_DROP_CUTOFF_POINT_SECS)
    THEN Idle(check_time)
    ELSE IF last_idle_state.state = "Active"
    THEN IF idle_since_seconds = 0
         THEN Active(check_time)
         ELSE IF self.reading_mode /\ ~in_break
              THEN Active(last_idle_state.active_since)
              ELSE ActiveGoingToIdle(last_idle_state.active_since, check_time)
    ELSE IF last_idle_state.state = "ActiveGoingToIdle"
    THEN IF idle_since_seconds = 0
         THEN Active(last_idle_state.active_since)
         ELSE IF idle_since_seconds \in 1 .. TRANSITION_THRESHOLD_SECS
              THEN ActiveGoingToIdle(last_idle_state.active_since,
                                     last_idle_state.transitioning_since)
              ELSE Idle(check_time)
    ELSE IF last_idle_state.state = "IdleGoingToActive"
    THEN IF idle_since_seconds \in 0 .. END_OF_ACTIVE_PUSHING_TRANSITION_WINDOW
            /\ last_idle_state.transitioning_since <= start_of_transition_period
         THEN Active(check_time)
         ELSE IF last_idle_state.transitioning_since <= start_of_transition_period
              THEN Idle(last_idle_state.idle_since)
              ELSE IdleGoingToActive(last_idle_state.idle_since,
                                     last_idle_state.transitioning_since)
    ELSE IF idle_since_seconds = 0
         THEN IdleGoingToActive(last_idle_state.idle_since, check_time)
         ELSE Idle(last_idle_state.idle_since)

\* _make_debounced_idle_state that finalizes an IdleGoingToActive on the
\* next sample, without waiting for the threshold.
MakeDebouncedIdleStateCommitsAtOnce(self, idle_since_seconds, last_idle_state, time_since_last_check, check_time, start_of_transition_period, in_break) ==
    IF is_user_active(last_idle_state)
       /\ time_since_last_check > Seconds(FRAME_DROP_CUTOFF_POINT_SECS)
    THEN Idle(check_time)
    ELSE IF last_idle_state.state = "Active"
    THEN IF idle_since_seconds = 0
         THEN Active(last_idle_state.active_since)
         ELSE IF self.reading_mode /\ ~in_break
              THEN Active(last_idle_state.active_since)
              ELSE ActiveGoingToIdle(last_idle_state.active_since, check_time)
    ELSE IF last_idle_state.state = "ActiveGoingToIdle"
    THEN IF idle_since_seconds = 0
         THEN Active(last_idle_state.active_since)
         ELSE IF idle_since_seconds \in 1 .. TRANSITION_THRESHOLD_SECS
              THEN ActiveGoingToIdle(last_idle_state.active_since,
                                     last_idle_state.transitioning_since)
              ELSE Idle(check_time)
    ELSE IF last_idle_state.state = "IdleGoingToActive"
    THEN IF idle_since_seconds \in 0 .. END_OF_ACTIVE_PUSHING_TRANSITION_WINDOW
         THEN Active(check_time)
         ELSE Idle(last_idle_state.idle_since)
    ELSE IF idle_since_seconds = 0
         THEN IdleGoingToActive(last_idle_state.idle_since, check_time)
         ELSE Idle(last_idle_state.idle_since)

\* _make_debounced_idle_state; self is last_idle_info (its reading_mode is read).
MakeDebouncedIdleState(self, idle_since_seconds, last_idle_state, time_since_last_check, check_time, start_of_transition_period, in_break) ==
    IF is_user_active(last_idle_state)
       /\ time_since_last_check > Seconds(FRAME_DROP_CUTOFF_POINT_SECS)
    THEN Idle(check_time)
    ELSE IF last_idle_state.state = "Active"
    THEN IF idle_since_seconds = 0
         THEN Active(last_idle_state.active_since)
         ELSE IF self.reading_mode /\ ~in_break
              THEN Active(last_idle_state.active_since)
              ELSE ActiveGoingToIdle(last_idle_state.active_since, check_time)
    ELSE IF last_idle_state.state = "ActiveGoingToIdle"
    THEN IF idle_since_seconds = 0
         THEN Active(last_idle_state.active_since)
         ELSE IF idle_since_seconds \in 1 .. TRANSITION_THRESHOLD_SECS
              THEN ActiveGoingToIdle(last_idle_state.active_since,
                                     last_idle_state.transitioning_since)
              ELSE Idle(check_time)
    ELSE IF last_idle_state.state = "IdleGoingToActive"
    THEN IF idle_since_seconds \in 0 .. END_OF_ACTIVE_PUSHING_TRANSITION_WINDOW
            /\ last_idle_state.transitioning_since <= start_of_transition_period
         THEN Active(check_time)
         ELSE IF last_idle_state.transitioning_since <= start_of_transition_period
              THEN Idle(last_idle_state.idle_since)
              ELSE IdleGoingToActive(last_idle_state.idle_since,
                                     last_idle_state.transitioning_since)
    ELSE IF idle_since_seconds = 0
         THEN IdleGoingToActive(last_idle_state.idle_since, check_time)
         ELSE Idle(last_idle_state.idle_since)

\* ------------------------------------------------------- snapshot makers

\* progress_towards_break that counts only the time the user was active.
NormalProgressActiveTimeOnly(self, progress_towards_break, progress_towards_reset, prv_idle_state, new_idle_state, time_since_last_check) ==
    IF is_user_active(prv_idle_state)
       /\ time_since_last_check > Seconds(FRAME_DROP_CUTOFF_POINT_SECS)
    THEN progress_towards_break
    ELSE IF ~is_user_active(prv_idle_state)
            /\ progress_towards_reset + time_since_last_check
                   >= Seconds(self.break_length_secs)
    THEN IF ~is_user_active(new_idle_state) THEN 0 ELSE progress_towards_break
    ELSE IF ~is_user_active(prv_idle_state)
    THEN progress_towards_break
    ELSE Min(Seconds(self.time_to_break_secs),
             progress_towards_break + time_since_last_check)

\* progress_towards_break without the frame-drop arm: the gap counts as work.
NormalProgressCountsGap(self, progress_towards_break, progress_towards_reset, prv_idle_state, new_idle_state, time_since_last_check) ==
    IF ~is_user_active(prv_idle_state)
       /\ progress_towards_reset + time_since_last_check
              >= Seconds(self.break_length_secs)
    THEN IF ~is_user_active(new_idle_state) THEN 0 ELSE progress_towards_break
    ELSE Min(Seconds(self.time_to_break_secs),
             progress_towards_break + time_since_last_check)

\* progress_towards_break that leaves out every gap above the cut-off,
\* whatever the previous debounced state.
NormalProgressIgnoresEveryGap(self, progress_towards_break, progress_towards_reset, prv_idle_state, new_idle_state, time_since_last_check) ==
    IF time_since_last_check > Seconds(FRAME_DROP_CUTOFF_POINT_SECS)
    THEN progress_towards_break
    ELSE IF ~is_user_active(prv_idle_state)
            /\ progress_towards_reset + time_since_last_check
                   >= Seconds(self.break_length_secs)
    THEN IF ~is_user_active(new_idle_state) THEN 0 ELSE progress_towards_break
    ELSE Min(Seconds(self.time_to_break_secs),
             progress_towards_break + time_since_last_check)

\* progress_towards_break of _make_idle_info_in_normal_state
NormalProgressTowardsBreak(self, progress_towards_break, progress_towards_reset, prv_idle_state, new_idle_state, time_since_last_check) ==
    IF is_user_active(prv_idle_state)
       /\ time_since_last_check > Seconds(FRAME_DROP_CUTOFF_POINT_SECS)
    THEN progress_towards_break
    ELSE IF ~is_user_active(prv_idle_state)
            /\ progress_towards_reset + time_since_last_check
                   >= Seconds(self.break_length_secs)
    THEN IF ~is_user_active(new_idle_state) THEN 0 ELSE progress_towards_break
    ELSE Min(Seconds(self.time_to_break_secs),
             progress_towards_break + time_since_last_check)

\* progress_towards_reset without the arm for a fresh Idle state.
NormalProgressTowardsResetNoFreshIdle(self, progress_towards_reset, check_time, new_idle_state, time_since_last_check) ==
    IF is_user_active(new_idle_state)
    THEN 0
    ELSE Min(Seconds(self.break_length_secs),
             progress_towards_reset + time_since_last_check)

\* progress_towards_reset that stands still while the user may be coming
\* back (IdleGoingToActive).
NormalProgressTowardsResetIdleOnly(self, progress_towards_reset, check_time, new_idle_state, time_since_last_check) ==
    IF new_idle_state.state = "Idle" /\ new_idle_state.idle_since = check_time
    THEN 0
    ELSE IF is_user_active(new_idle_state)
    THEN 0
    ELSE IF new_idle_state.state = "IdleGoingToActive"
    THEN progress_towards_reset
    ELSE Min(Seconds(self.break_length_secs),
             progress_towards_reset + time_since_last_check)

\* progress_towards_reset of _make_idle_info_in_normal_state
NormalProgressTowardsReset(self, progress_towards_reset, check_time, new_idle_state, time_since_last_check) ==
    IF new_idle_state.state = "Idle" /\ new_idle_state.idle_since = check_time
    THEN 0
    ELSE IF is_user_active(new_idle_state)
    THEN 0
    ELSE Min(Seconds(self.break_length_secs),
             progress_towards_reset + time_since_last_check)

\* _make_idle_info_in_normal_state
MakeIdleInfoInNormalState(self, presence_mode, idle_since_seconds, progress_towards_break, progress_towards_reset, prv_idle_state, check_time, new_idle_state, time_since_last_check, reading_mode, time_to_break_secs, break_length_secs, overrun) ==
    IdleInfo(idle_since_seconds, check_time,
             Normal(NormalProgressTowardsBreak(self, progress_towards_break,
                        progress_towards_reset, prv_idle_state, new_idle_state,
                        time_since_last_check),
                    NormalProgressTowardsReset(self, progress_towards_reset,
                        check_time, new_idle_state, time_since_last_check),
                    new_idle_state),
             reading_mode, presence_mode, time_to_break_secs,
             break_length_secs, overrun)

\* _make_idle_info_in_prebreak_state
MakeIdleInfoInPrebreakState(idle_since_seconds, last_checked, waiting_since, presence_mode, reading_mode, break_length_secs, time_to_break_secs, overrun) ==
    IdleInfo(idle_since_seconds, last_checked, PreBreak(waiting_since),
             reading_mode, presence_mode, time_to_break_secs,
             break_length_secs, overrun)

\* progress_towards_finish that advances while the user is active instead
\* of while the user rests.
BreakProgressWhileActive(new_idle_state, progress_towards_finish, time_since_last_check, break_length_secs) ==
    IF is_user_active(new_idle_state)
    THEN Min(Seconds(break_length_secs),
             progress_towards_finish + time_since_last_check)
    ELSE progress_towards_finish

\* progress_towards_finish of _make_idle_info_in_break_state
BreakProgressTowardsFinish(new_idle_state, progress_towards_finish, time_since_last_check, break_length_secs) ==
    IF ~is_user_active(new_idle_state)
    THEN Min(Seconds(break_length_secs),
             progress_towards_finish + time_since_last_check)
    ELSE progress_towards_finish

\* _make_idle_info_in_break_state
MakeIdleInfoInBreakState(idle_since_seconds, last_checked, new_idle_state, progress_towards_finish, time_since_last_check, presence_mode, reading_mode, time_to_break_secs, break_length_secs, overrun) ==
    IdleInfo(idle_since_seconds, last_checked,
             Break(BreakProgressTowardsFinish(new_idle_state,
                       progress_towards_finish, time_since_last_check,
                       break_length_secs),
                   new_idle_state),
             reading_mode, presence_mode, time_to_break_secs,
             break_length_secs, overrun)

\* ---------------------------------------------------------------- refresh

\* new_presence_mode of refresh_idle_info
NewPresenceMode(self, check_time) ==
    IF self.presence_mode.type = "snoozed_until"
       /\ self.presence_mode.value < check_time
    THEN PresenceActive
    ELSE self.presence_mode

\* The guard of the first Normal arm of refresh_idle_info.
ReachesBreakThreshold(self, time_since_last_check) ==
    /\ self.last_mode_state.progress_towards_break + time_since_last_check
           >= Seconds(self.time_to_break_secs)
    /\ time_since_last_check < Seconds(FRAME_DROP_CUTOFF_POINT_SECS)
    /\ ~is_muted(self)

\* NormalOverrun that charges every tick of an active user, overdue or not.
NormalOverrunChargesEveryActiveTick(self, time_since_last_check) ==
    LET m == self.last_mode_state
    IN  IF NumSeconds(m.progress_towards_reset + time_since_last_check)
               >= self.break_length_secs
        THEN 0
        ELSE IF is_user_active(m.idle_state)
             THEN self.overrun + time_since_last_check
             ELSE self.overrun

\* The overrun argument of the second Normal arm of refresh_idle_info.
NormalOverrun(self, time_since_last_check) ==
    LET m == self.last_mode_state
    IN  IF NumSeconds(m.progress_towards_reset + time_since_last_check)
               >= self.break_length_secs
        THEN 0
        ELSE IF is_user_active(m.idle_state)
             THEN IF self.overrun = 0
                     /\ NumSeconds(m.progress_towards_break)
                            < self.time_to_break_secs
                  THEN self.overrun
                  ELSE self.overrun + time_since_last_check
             ELSE self.overrun

\* Normal arm that enters PreBreak.
RefreshNormalToPreBreak(self, idle_since_seconds, check_time, waiting_since, new_presence_mode) ==
    MakeIdleInfoInPrebreakState(idle_since_seconds, check_time, waiting_since,
        new_presence_mode, self.reading_mode, self.break_length_secs,
        self.time_to_break_secs, self.overrun)

\* Normal arm that stays Normal.
RefreshNormal(self, idle_since_seconds, check_time, start_of_transition_period, time_since_last_check, new_presence_mode) ==
    LET m == self.last_mode_state
    IN  MakeIdleInfoInNormalState(self, new_presence_mode, idle_since_seconds,
            IF time_since_last_check > Seconds(self.time_to_break_secs)
            THEN 0 ELSE m.progress_towards_break,
            m.progress_towards_reset,
            m.idle_state,
            check_time,
            MakeDebouncedIdleState(self, idle_since_seconds, m.idle_state,
                time_since_last_check, check_time, start_of_transition_period,
                FALSE),
            time_since_last_check,
            self.reading_mode, self.time_to_break_secs, self.break_length_secs,
            NormalOverrun(self, time_since_last_check))

\* RefreshPreBreakMuted without the pin of progress_towards_break at the
\* ceiling: the counter restarts from zero.
RefreshPreBreakMutedFromZero(self, idle_since_seconds, check_time, start_of_transition_period, time_since_last_check, new_presence_mode) ==
    MakeIdleInfoInNormalState(self, new_presence_mode, idle_since_seconds,
        0,
        0,
        Active(check_time),
        check_time,
        MakeDebouncedIdleState(self, idle_since_seconds, Active(check_time),
            time_since_last_check, check_time, start_of_transition_period,
            FALSE),
        time_since_last_check,
        self.reading_mode, self.time_to_break_secs, self.break_length_secs,
        self.overrun)

\* PreBreak arm taken while muted or snoozed.
RefreshPreBreakMuted(self, idle_since_seconds, check_time, start_of_transition_period, time_since_last_check, new_presence_mode) ==
    MakeIdleInfoInNormalState(self, new_presence_mode, idle_since_seconds,
        Seconds(self.time_to_break_secs),
        0,
        Active(check_time),
        check_time,
        MakeDebouncedIdleState(self, idle_since_seconds, Active(check_time),
            time_since_last_check, check_time, start_of_transition_period,
            FALSE),
        time_since_last_check,
        self.reading_mode, self.time_to_break_secs, self.break_length_secs,
        self.overrun)

\* IdleStreakSatisfied with a strict comparison: 5 idle seconds not enough.
IdleStreakStrict(idle_since_seconds) ==
    idle_since_seconds > REQUIRED_PREBREAK_IDLE_STREAK_SECONDS

\* The guard of the PreBreak arm that starts the break.
IdleStreakSatisfied(idle_since_seconds) ==
    idle_since_seconds >= REQUIRED_PREBREAK_IDLE_STREAK_SECONDS

\* PreBreak arm that starts the break.
RefreshPreBreakToBreak(self, idle_since_seconds, check_time, new_presence_mode) ==
    IdleInfo(idle_since_seconds, check_time,
             Break(0, Idle(check_time - Seconds(idle_since_seconds))),
             self.reading_mode, new_presence_mode, self.time_to_break_secs,
             self.break_length_secs,
             self.overrun + (check_time - self.last_checked))

\* PreBreak arm that keeps waiting but starts its overrun afresh when the
\* user touches the machine.
RefreshPreBreakStatusQuoRestartsOverrun(self, idle_since_seconds, check_time, new_presence_mode) ==
    MakeIdleInfoInPrebreakState(idle_since_seconds, check_time,
        self.last_mode_state.started_at, new_presence_mode, self.reading_mode,
        self.break_length_secs, self.time_to_break_secs,
        IF idle_since_seconds = 0
        THEN 0
        ELSE self.overrun + (check_time - self.last_checked))

\* PreBreak arm that keeps waiting.
RefreshPreBreakStatusQuo(self, idle_since_seconds, check_time, new_presence_mode) ==
    MakeIdleInfoInPrebreakState(idle_since_seconds, check_time,
        self.last_mode_state.started_at, new_presence_mode, self.reading_mode,
        self.break_length_secs, self.time_to_break_secs,
        self.overrun + (check_time - self.last_checked))

\* BreakConcluded with a strict comparison: the break runs one tick longer.
BreakConcludedStrict(self, time_since_last_check) ==
    self.last_mode_state.progress_towards_finish + time_since_last_check
        > Seconds(self.break_length_secs)

\* The guard of the first Break arm of refresh_idle_info.
BreakConcluded(self, time_since_last_check) ==
    self.last_mode_state.progress_towards_finish + time_since_last_check
        >= Seconds(self.break_length_secs)

\* Break arm that ends the break.
RefreshBreakConcluded(self, idle_since_seconds, check_time, start_of_transition_period, time_since_last_check, new_presence_mode) ==
    IdleInfo(idle_since_seconds, check_time,
             Normal(0, Seconds(self.break_length_secs),
                    MakeDebouncedIdleState(self, idle_since_seconds,
                        self.last_mode_state.idle_state, time_since_last_check,
                        check_time, start_of_transition_period, TRUE)),
             self.reading_mode, new_presence_mode, self.time_to_break_secs,
             self.break_length_secs, 0)

\* BreakOverrun that charges the tick whatever the idle state.
BreakOverrunAlways(self, check_time) ==
    self.overrun + (check_time - self.last_checked)

\* The overrun argument of the second Break arm of refresh_idle_info.
BreakOverrun(self, check_time) ==
    IF is_user_active(self.last_mode_state.idle_state)
    THEN self.overrun + (check_time - self.last_checked)
    ELSE self.overrun

\* Break arm that stays in the break.
RefreshBreakStatusQuo(self, idle_since_seconds, check_time, start_of_transition_period, time_since_last_check, new_presence_mode) ==
    MakeIdleInfoInBreakState(idle_since_seconds, check_time,
        MakeDebouncedIdleState(self, idle_since_seconds,
            self.last_mode_state.idle_state, time_since_last_check, check_time,
            start_of_transition_period, TRUE),
        self.last_mode_state.progress_towards_finish,
        time_since_last_check, new_presence_mode, self.reading_mode,
        self.time_to_break_secs, self.break_length_secs,
        BreakOverrun(self, check_time))

\* Whether refresh_idle_info takes the arm that reads the clock a third time.
TakesPreBreakArm(self, check_time) ==
    /\ self.last_mode_state.state = "Normal"
    /\ ReachesBreakThreshold(self, check_time - self.last_checked)

\* refresh_idle_info: check_time, second_read and third_read are what the
\* clock returned at the three places the function reads it.
RefreshIdleInfo(self, idle_since_seconds, check_time, second_read, third_read) ==
    LET start_of_transition_period ==
            second_read - Seconds(TRANSITION_THRESHOLD_SECS)
        time_since_last_check == check_time - self.last_checked
        new_presence_mode == NewPresenceMode(self, check_time)
        mode == self.last_mode_state.state
    IN  IF mode = "Normal" /\ ReachesBreakThreshold(self, time_since_last_check)
        THEN RefreshNormalToPreBreak(self, idle_since_seconds, check_time,
                 third_read, new_presence_mode)
        ELSE IF mode = "Normal"
        THEN RefreshNormal(self, idle_since_seconds, check_time,
                 start_of_transition_period, time_since_last_check,
                 new_presence_mode)
        ELSE IF mode = "PreBreak" /\ is_muted(self)
        THEN RefreshPreBreakMuted(self, idle_since_seconds, check_time,
                 start_of_transition_period, time_since_last_check,
                 new_presence_mode)
        ELSE IF mode = "PreBreak" /\ IdleStreakSatisfied(idle_since_seconds)
        THEN RefreshPreBreakToBreak(self, idle_since_seconds, check_time,
                 new_presence_mode)
        ELSE IF mode = "PreBreak"
        THEN RefreshPreBreakStatusQuo(self, idle_since_seconds, check_time,
                 new_presence_mode)
        ELSE IF BreakConcluded(self, time_since_last_check)
        THEN RefreshBreakConcluded(self, idle_since_seconds, check_time,
                 start_of_transition_period, time_since_last_check,
                 new_presence_mode)
        ELSE RefreshBreakStatusQuo(self, idle_since_seconds, check_time,
                 start_of_transition_period, time_since_last_check,
                 new_presence_mode)

\* ------------------------------------------------------- other operations

\* export_persistable_state that exports the progress of a running break as
\* progress_towards_reset.
ExportPersistableStateBreakProgress(self) ==
    [progress_towards_break |->
         IF self.last_mode_state.state = "Normal"
         THEN self.last_mode_state.progress_towards_break ELSE 0,
     progress_towards_reset |->
         IF self.last_mode_state.state = "Normal"
         THEN self.last_mode_state.progress_towards_reset
         ELSE IF self.last_mode_state.state = "Break"
         THEN self.last_mode_state.progress_towards_finish ELSE 0,
     last_checked |-> self.last_checked,
     presence_mode |-> self.presence_mode,
     reading_mode |-> self.reading_mode,
     time_to_break_secs |-> self.time_to_break_secs,
     break_length_secs |-> self.break_length_secs]

\* export_persistable_state
ExportPersistableState(self) ==
    [progress_towards_break |->
         IF self.last_mode_state.state = "Normal"
         THEN self.last_mode_state.progress_towards_break ELSE 0,
     progress_towards_reset |->
         IF self.last_mode_state.state = "Normal"
         THEN self.last_mode_state.progress_towards_reset ELSE 0,
     last_checked |-> self.last_checked,
     presence_mode |-> self.presence_mode,
     reading_mode |-> self.reading_mode,
     time_to_break_secs |-> self.time_to_break_secs,
     break_length_secs |-> self.break_length_secs]

\* PersistableState::save_to_disk: the file after the call, which fails
\* (saved = FALSE) or replaces the content.
SaveToDisk(state, file, saved) ==
    IF file.tracked /\ saved
    THEN [tracked |-> TRUE, state |-> state]
    ELSE file

\* Whether the state file exists and can be read.
OnDisk(file) == file.tracked /\ "state" \in DOMAIN file

\* PersistableState::load_from_disk(...).ok()
LoadFromDisk(file) == IF OnDisk(file) THEN Some(file.state) ELSE None

\* persist_settings_to_disk: the file after the call; a failed save is only
\* logged.  A file whose content is not followed stays as it is.
PersistSettingsToDisk(self, file, saved) ==
    IF file.tracked /\ saved
    THEN [tracked |-> TRUE, state |-> ExportPersistableState(self)]
    ELSE file

\* snooze
SnoozeInfo(self, timestamp) ==
    [self EXCEPT !.presence_mode = SnoozedUntil(timestamp)]

\* mute that carries out the abort of a PreBreak itself.
MuteAbortsPreBreak(self) ==
    IF self.last_mode_state.state = "PreBreak"
    THEN [self EXCEPT
             !.presence_mode = Muted,
             !.last_mode_state = Normal(Seconds(self.time_to_break_secs), 0,
                                        Active(self.last_checked))]
    ELSE [self EXCEPT !.presence_mode = Muted]

\* mute
MuteInfo(self) == [self EXCEPT !.presence_mode = Muted]

\* unmute
UnmuteInfo(self) == [self EXCEPT !.presence_mode = PresenceActive]

\* map_debounced_idle_state that leaves the stable Idle state alone.
MapDebouncedIdleStateKeepsIdle(debounced_idle_state, check_time) ==
    IF is_user_active(debounced_idle_state)
    THEN Active(debounced_idle_state.active_since)
    ELSE IF debounced_idle_state.state = "Idle"
    THEN debounced_idle_state
    ELSE Active(check_time)

\* map_debounced_idle_state of set_reading_mode
map_debounced_idle_state(debounced_idle_state, check_time) ==
    IF is_user_active(debounced_idle_state)
    THEN Active(debounced_idle_state.active_since)
    ELSE Active(check_time)

\* set_reading_mode
SetReadingModeInfo(self, reading_mode, check_time) ==
    LET m == self.last_mode_state
    IN  IdleInfo(self.idle_since_seconds, self.last_checked,
            IF m.state = "Normal"
            THEN Normal(m.progress_towards_break, m.progress_towards_reset,
                        map_debounced_idle_state(m.idle_state, check_time))
            ELSE IF m.state = "PreBreak"
            THEN PreBreak(m.started_at)
            ELSE Break(m.progress_towards_finish,
                       map_debounced_idle_state(m.idle_state, check_time)),
            reading_mode, self.presence_mode, self.time_to_break_secs,
            self.break_length_secs, self.overrun)

\* trigger_break that also clears the overrun.
TriggerBreakClearsOverrun(self) ==
    IF self.last_mode_state.state = "Normal"
    THEN IdleInfo(self.idle_since_seconds, self.last_checked,
                  Break(0, Idle(self.last_checked)),
                  self.reading_mode, self.presence_mode,
                  self.time_to_break_secs, self.break_length_secs,
                  0)
    ELSE self

\* trigger_break that cuts the wait of a PreBreak short as well.
TriggerBreakAlsoFromPreBreak(self) ==
    IF self.last_mode_state.state \in {"Normal", "PreBreak"}
    THEN IdleInfo(self.idle_since_seconds, self.last_checked,
                  Break(0, Idle(self.last_checked)),
                  self.reading_mode, self.presence_mode,
                  self.time_to_break_secs, self.break_length_secs,
                  self.overrun)
    ELSE self

\* trigger_break
TriggerBreakInfo(self) ==
    IF self.last_mode_state.state = "Normal"
    THEN IdleInfo(self.idle_since_seconds, self.last_checked,
                  Break(0, Idle(self.last_checked)),
                  self.reading_mode, self.presence_mode,
                  self.time_to_break_secs, self.break_length_secs,
                  self.overrun)
    ELSE self

\* skip_break that restarts the debounced state as Active from now.
SkipBreakRestartsIdleState(self, check_time, idle_since_seconds) ==
    IF self.last_mode_state.state = "Break"
    THEN IdleInfo(idle_since_seconds, check_time,
                  Normal(0, 0, Active(check_time)),
                  self.reading_mode, self.presence_mode,
                  self.time_to_break_secs, self.break_length_secs, 0)
    ELSE self

\* skip_break that acts in PreBreak as well as in Break.
SkipBreakAlsoInPreBreak(self, check_time, idle_since_seconds) ==
    IF self.last_mode_state.state = "Break"
    THEN IdleInfo(idle_since_seconds, check_time,
                  Normal(0, 0, self.last_mode_state.idle_state),
                  self.reading_mode, self.presence_mode,
                  self.time_to_break_secs, self.break_length_secs, 0)
    ELSE IF self.last_mode_state.state = "PreBreak"
    THEN IdleInfo(idle_since_seconds, check_time,
                  Normal(0, 0, Active(check_time)),
                  self.reading_mode, self.presence_mode,
                  self.time_to_break_secs, self.break_length_secs, 0)
    ELSE self

\* skip_break
SkipBreakInfo(self, check_time, idle_since_seconds) ==
    IF self.last_mode_state.state = "Break"
    THEN IdleInfo(idle_since_seconds, check_time,
                  Normal(0, 0, self.last_mode_state.idle_state),
                  self.reading_mode, self.presence_mode,
                  self.time_to_break_secs, self.break_length_secs, 0)
    ELSE self

\* postpone_break
PostponeBreakInfo(self, postpone_duration, check_time, idle_since_seconds) ==
    IF self.last_mode_state.state = "Break"
    THEN IdleInfo(idle_since_seconds, check_time,
                  Normal(Seconds(self.time_to_break_secs) - postpone_duration,
                         0, self.last_mode_state.idle_state),
                  self.reading_mode, self.presence_mode,
                  self.time_to_break_secs, self.break_length_secs,
                  self.overrun)
    ELSE self

\* set_time_to_break
SetTimeToBreakInfo(self, num_secs) ==
    LET m == self.last_mode_state
    IN  [self EXCEPT
            !.time_to_break_secs = num_secs,
            !.last_mode_state =
                IF m.state = "Normal"
                THEN Normal(Seconds(Min(NumSeconds(m.progress_towards_break),
                                        num_secs)),
                            m.progress_towards_reset, m.idle_state)
                ELSE m]

\* set_break_length
SetBreakLengthInfo(self, num_secs) ==
    LET m == self.last_mode_state
    IN  [self EXCEPT
            !.break_length_secs = num_secs,
            !.last_mode_state =
                IF m.state = "Normal"
                THEN Normal(m.progress_towards_break,
                            Seconds(Min(NumSeconds(m.progress_towards_reset),
                                        num_secs)),
                            m.idle_state)
                ELSE m]

\* ---------------------------------------------------------------- actions

Void == [void |-> TRUE]

Op(name, arg) == [name |-> name, arg |-> arg]

\* No postponement is being tracked.
NoGrace == [valid |-> FALSE]

\* The part of every action that records what happened: the state before
\* the call, the call, what it returned, and the last effective
\* postpone_break (forgotten when a setting is changed).
\* The break-end sound decision of monitor_idle_forever, for the snapshot
\* idle_info its refresh returned.
PlaysBreakEndSound(previous_idle_info, idle_info) ==
    /\ idle_info.last_mode_state.state = "Normal"
    /\ previous_idle_info.some
    /\ previous_idle_info.state.last_mode_state.state = "Break"
    /\ previous_idle_info.state.last_mode_state.idle_state.state = "Idle"

\* The monitor loop's locals are not followed.
NoLoop == [tracked |-> FALSE]

\* One iteration of monitor_idle_forever after its refresh returned
\* idle_info.
LoopIteration(self, idle_info) ==
    [tracked |-> TRUE,
     previous_idle_info |-> Some(idle_info),
     sound |-> PlaysBreakEndSound(self.previous_idle_info, idle_info)]

Record(name, arg, returned) ==
    /\ calls < budget
    /\ calls' = calls + 1
    /\ budget' = budget
    /\ pre' = info
    /\ lastOp' = Op(name, arg)
    /\ ret' = returned
    /\ grace' = IF name = "postpone_break"
                    /\ info.last_mode_state.state = "Break"
                 THEN [valid |-> TRUE, since |-> info'.last_checked, d |-> arg]
                 ELSE IF name \in {"set_time_to_break", "set_break_length", "new"}
                 THEN NoGrace
                 ELSE grace
    /\ pending' = IF name = "export_persistable_state"
                   THEN Some(returned)
                   ELSE IF name \in {"save_to_disk", "new"}
                   THEN None
                   ELSE pending
    /\ loop' = IF loop.tracked /\ name = "refresh"
                THEN LoopIteration(loop, returned)
                ELSE loop

\* The state files found at start-up: none, or one of these, written by an
\* earlier run of the program.
RestoredStates ==
    {PersistableState(1, 0, -1, PresenceActive, FALSE, 1, 1),
     PersistableState(Seconds(2), 0, -1, Muted, FALSE, 2, 2),
     PersistableState(1, 1, -Seconds(DEFAULT_BREAK_LENGTH_SECS),
                      SnoozedUntil(1), TRUE, 2, 1),
     PersistableState(1, 0, -(Seconds(1) + 1), PresenceActive, TRUE, 2, 1)}

\* IdleMonitor::new at time 0, the state file not followed.
Constructed ==
    /\ clock = 0
    /\ \E restored_state \in {None} \cup {Some(s) : s \in RestoredStates} :
           /\ info = New(clock, restored_state)
           /\ lastOp = Op("new", restored_state)
    /\ pre = info
    /\ ret = Void
    /\ disk = [tracked |-> FALSE]
    /\ calls = 0
    /\ grace = NoGrace
    /\ pending = None
    /\ loop = NoLoop

Init ==
    /\ Constructed
    /\ budget = MaxCalls

\* The same start for the runs that only tick and override.
InitTicks ==
    /\ Constructed
    /\ budget = MaxTickCalls

\* The clock between two reads inside one call: it may advance where the
\* later read is used, and is taken not to where the later read is dropped
\* or has no effect on last_idle_info (time that passes there passes before
\* the next call's first read just as well).
InnerGaps(used) == IF used THEN ReadGaps ELSE {0}

\* Whether refresh_idle_info uses start_of_transition_period.
UsesTransitionPeriod(self, check_time) ==
    /\ ~TakesPreBreakArm(self, check_time)
    /\ self.last_mode_state.state \in {"Normal", "Break"}
    /\ self.last_mode_state.idle_state.state = "IdleGoingToActive"

\* refresh_idle_info
\* refresh_idle_info() called d after the last clock read, with the idle
\* source returning idle_since_seconds.
RefreshWith(idle_since_seconds, d) ==
    LET check_time == clock + d
    IN  \E g2 \in InnerGaps(UsesTransitionPeriod(info, check_time)), g3 \in InnerGaps(TakesPreBreakArm(info, check_time)) :
            LET second_read == check_time + g2
                third_read == second_read + g3
            IN  /\ clock' = third_read
                /\ info' = RefreshIdleInfo(info, idle_since_seconds,
                               check_time, second_read, third_read)
                /\ Record("refresh", second_read, info')
                /\ UNCHANGED disk

Refresh ==
    \E idle_since_seconds \in IdleSamples, d \in Deltas \cup SuspendDeltas :
        RefreshWith(idle_since_seconds, d)

Snooze ==
    \E span \in SnoozeSpans, saved \in BOOLEAN :
        /\ info' = SnoozeInfo(info, clock + span)
        /\ disk' = PersistSettingsToDisk(info', disk, saved)
        /\ Record("snooze", clock + span, info')
        /\ UNCHANGED clock

Mute ==
    \E saved \in BOOLEAN :
        /\ info' = MuteInfo(info)
        /\ disk' = PersistSettingsToDisk(info', disk, saved)
        /\ Record("mute", 0, info')
        /\ UNCHANGED clock

Unmute ==
    \E saved \in BOOLEAN :
        /\ info' = UnmuteInfo(info)
        /\ disk' = PersistSettingsToDisk(info', disk, saved)
        /\ Record("unmute", 0, info')
        /\ UNCHANGED clock

\* Whether set_reading_mode uses its check_time.
UsesCheckTime(self) ==
    /\ self.last_mode_state.state \in {"Normal", "Break"}
    /\ ~is_user_active(self.last_mode_state.idle_state)

SetReadingMode ==
    \E reading_mode \in BOOLEAN, d \in InnerGaps(UsesCheckTime(info)), saved \in BOOLEAN :
        /\ clock' = clock + d
        /\ info' = SetReadingModeInfo(info, reading_mode, clock')
        /\ disk' = PersistSettingsToDisk(info', disk, saved)
        /\ Record("set_reading_mode", [reading_mode |-> reading_mode, check_time |-> clock'], Void)

TriggerBreak ==
    /\ info' = TriggerBreakInfo(info)
    /\ Record("trigger_break", 0, info')
    /\ UNCHANGED <<clock, disk>>

SkipBreak ==
    \E idle_since_seconds \in IdleSamples, d \in InnerGaps(info.last_mode_state.state = "Break") :
        /\ clock' = clock + d
        /\ info' = SkipBreakInfo(info, clock', idle_since_seconds)
        /\ Record("skip_break", 0, info')
        /\ UNCHANGED disk

PostponeBreak ==
    \E postpone_duration \in PostponeChoices, idle_since_seconds \in IdleSamples, d \in InnerGaps(info.last_mode_state.state = "Break") :
        /\ clock' = clock + d
        /\ info' = PostponeBreakInfo(info, postpone_duration, clock',
                                     idle_since_seconds)
        /\ Record("postpone_break", postpone_duration, info')
        /\ UNCHANGED disk

SetTimeToBreak ==
    \E num_secs \in TimeToBreakChoices, saved \in BOOLEAN :
        /\ info' = SetTimeToBreakInfo(info, num_secs)
        /\ disk' = PersistSettingsToDisk(info', disk, saved)
        /\ Record("set_time_to_break", num_secs, Void)
        /\ UNCHANGED clock

SetBreakLength ==
    \E num_secs \in BreakLengthChoices, saved \in BOOLEAN :
        /\ info' = SetBreakLengthInfo(info, num_secs)
        /\ disk' = PersistSettingsToDisk(info', disk, saved)
        /\ Record("set_break_length", num_secs, Void)
        /\ UNCHANGED clock

Next ==
    \/ Refresh
    \/ Snooze
    \/ Mute
    \/ Unmute
    \/ SetReadingMode
    \/ TriggerBreak
    \/ SkipBreak
    \/ PostponeBreak
    \/ SetTimeToBreak
    \/ SetBreakLength

Spec == Init /\ [][Next]_vars

\* The monitor driven by its timer, the break window and the reading-mode
\* switch: ticks, forced breaks, postponements and reading mode, the two
\* durations left alone.
NextTicks ==
    \/ Refresh
    \/ TriggerBreak
    \/ PostponeBreak
    \/ SetReadingMode

SpecTicks == InitTicks /\ [][NextTicks]_vars

\* The program started with its state file followed: the file, if there is
\* one, holds what IdleMonitor::new was given.
InitDisk ==
    /\ clock = 0
    /\ \E restored_state \in {None} \cup {Some(s) : s \in RestoredStates} :
           /\ info = New(clock, restored_state)
           /\ lastOp = Op("new", restored_state)
           /\ disk = IF restored_state.some
                     THEN [tracked |-> TRUE, state |-> restored_state.state]
                     ELSE [tracked |-> TRUE]
    /\ pre = info
    /\ ret = Void
    /\ calls = 0
    /\ budget = MaxCalls
    /\ grace = NoGrace
    /\ pending = None
    /\ loop = NoLoop

\* monitor_idle_forever: the refresh at the head of an iteration, which the
\* loop reaches only with no snapshot left to write.
MonitorLoopRefresh ==
    /\ ~pending.some
    /\ Refresh

\* monitor_idle_forever, every 15 s: the snapshot taken under the lock.
ExportSnapshot ==
    /\ ~pending.some
    /\ Record("export_persistable_state", 0, ExportPersistableState(info))
    /\ UNCHANGED <<clock, info, disk>>

\* monitor_idle_forever: the snapshot written after the lock was released.
WriteSnapshot ==
    /\ pending.some
    /\ \E saved \in BOOLEAN :
           /\ disk' = SaveToDisk(pending.state, disk, saved)
           /\ Record("save_to_disk", pending.state, saved)
    /\ UNCHANGED <<clock, info>>

\* The program is stopped and started again, which takes time: start_gui
\* loads the state file and hands it to IdleMonitor::new.
Restart ==
    \E d \in (Deltas \cup SuspendDeltas) \ {0} :
        /\ clock' = clock + d
        /\ info' = New(clock', LoadFromDisk(disk))
        /\ Record("new", LoadFromDisk(disk), Void)
        /\ UNCHANGED disk

\* The monitor loop with its periodic save, the mute, snooze, unmute and
\* break-now buttons on another thread, and restarts of the program.
NextDisk ==
    \/ MonitorLoopRefresh
    \/ ExportSnapshot
    \/ WriteSnapshot
    \/ Snooze
    \/ Mute
    \/ Unmute
    \/ TriggerBreak
    \/ Restart

SpecDisk == InitDisk /\ [][NextDisk]_vars

\* A monitor started without a state file and driven like SpecTicks, for one
\* call more: long enough to interrupt a forced break, postpone it and tick
\* again.
InitFresh ==
    /\ Constructed
    /\ ~lastOp.arg.some
    /\ budget = MaxFreshCalls

SpecFresh == InitFresh /\ [][NextTicks]_vars

\* ---------------------------------------------------- a resting user

\* The longest break of the restored monitors, in seconds.
LongestBreak ==
    CHOOSE n \in {s.break_length_secs : s \in RestoredStates} :
        \A s \in RestoredStates : s.break_length_secs <= n

\* The refreshes of a resting user's run.
RestCalls == Seconds(LongestBreak) + SpareRestCalls

\* Idle samples of a user who does not touch the machine: never 0.
RestSamples == {1, 4}

\* The monitor loop's ticks: time passes between two refreshes.
RestDeltas == Deltas \ {0}

\* A monitor restored from a state file; the run makes up to MaxSetupCalls
\* calls and then RestCalls refreshes.
InitRest ==
    /\ Constructed
    /\ lastOp.arg.some
    /\ budget \in RestCalls .. RestCalls + MaxSetupCalls

\* The user has started to rest: only the monitor loop calls the monitor.
Resting == calls >= budget - RestCalls

\* The calls made before the user rests.
BeforeRest ==
    /\ ~Resting
    /\ \/ Refresh
       \/ TriggerBreak
       \/ SetReadingMode

\* The monitor loop's refresh during a break in which the user rests.
RestRefresh ==
    /\ Resting
    /\ info.last_mode_state.state = "Break"
    /\ \E idle_since_seconds \in RestSamples, d \in RestDeltas :
           RefreshWith(idle_since_seconds, d)

NextRest ==
    \/ BeforeRest
    \/ RestRefresh

\* monitor_idle_forever refreshes every 250 ms for as long as the program
\* runs: the loop's refresh is taken whenever it stays possible.
SpecRest == InitRest /\ [][NextRest]_vars /\ WF_vars(RestRefresh)

\* ------------------------------------------------- the break-end sound

\* The monitor loop starts with no previous snapshot.
InitSound ==
    /\ clock = 0
    /\ \E restored_state \in {None} \cup {Some(s) : s \in RestoredStates} :
           /\ info = New(clock, restored_state)
           /\ lastOp = Op("new", restored_state)
    /\ pre = info
    /\ ret = Void
    /\ disk = [tracked |-> FALSE]
    /\ calls = 0
    /\ budget = MaxSoundCalls
    /\ grace = NoGrace
    /\ pending = None
    /\ loop = [tracked |-> TRUE, previous_idle_info |-> None, sound |-> FALSE]

\* The monitor loop's iterations and the calls the user interface makes
\* under the lock between two of them.
NextSound ==
    \/ Refresh
    \/ TriggerBreak
    \/ SkipBreak
    \/ PostponeBreak

SpecSound == InitSound /\ [][NextSound]_vars

\* ------------------------------------------------- vocabulary of the claims

\* The last call was name.
Called(name) == lastOp.name = name

\* A refresh has just run from mode m.
RefreshedFrom(m) == Called("refresh") /\ pre.last_mode_state.state = m

\* The elapsed time of the last refresh (time_since_last_check).
Elapsed == info.last_checked - pre.last_checked

\* The idle sample read by the last refresh.
Sample == info.idle_since_seconds

InMode(self, m) == self.last_mode_state.state = m

\* Every field but the mode state is the same in a and b.
SameButModeState(a, b) == [a EXCEPT !.last_mode_state = 0] = [b EXCEPT !.last_mode_state = 0]

\* ----------------------------------------------------------------- claims

\* C1: in every reachable state the progress counters are in range:
\* 0 <= progress_towards_break <= time_to_break_secs and
\* 0 <= progress_towards_reset <= break_length_secs in Normal, and
\* 0 <= progress_towards_finish <= break_length_secs in Break.
C1_ProgressInRange ==
    LET m == info.last_mode_state
    IN  /\ m.state = "Normal" =>
              /\ 0 <= m.progress_towards_break
              /\ m.progress_towards_break <= Seconds(info.time_to_break_secs)
              /\ 0 <= m.progress_towards_reset
              /\ m.progress_towards_reset <= Seconds(info.break_length_secs)
        /\ m.state = "Break" =>
              /\ 0 <= m.progress_towards_finish
              /\ m.progress_towards_finish <= Seconds(info.break_length_secs)

\* The condition under which C2 says a Normal refresh enters PreBreak.
C2_Due ==
    /\ pre.presence_mode = PresenceActive
    /\ Elapsed < Seconds(FRAME_DROP_CUTOFF_POINT_SECS)
    /\ pre.last_mode_state.progress_towards_break + Elapsed
           >= Seconds(pre.time_to_break_secs)

\* The condition under which C2 says a Normal refresh never enters PreBreak.
C2_NotDue ==
    \/ Elapsed >= Seconds(FRAME_DROP_CUTOFF_POINT_SECS)
    \/ pre.last_mode_state.progress_towards_break + Elapsed
           < Seconds(pre.time_to_break_secs)

\* C2: a refresh from Normal with presence Active, D < 30 s and
\* progress_towards_break + D >= time_to_break_secs ends in PreBreak with
\* started_at equal to the new last_checked and overrun unchanged; a refresh
\* never enters PreBreak when D >= 30 s or progress_towards_break + D is
\* below time_to_break_secs.
C2_EntersPreBreak ==
    RefreshedFrom("Normal") =>
        /\ C2_Due =>
              /\ InMode(info, "PreBreak")
              /\ info.last_mode_state.started_at = info.last_checked
              /\ info.overrun = pre.overrun
        /\ C2_NotDue => ~InMode(info, "PreBreak")

\* What holds of C2 in the code: started_at is a later read of the clock, so
\* it is at or after the new last_checked.
C2_EntersPreBreakLaterRead ==
    RefreshedFrom("Normal") =>
        /\ C2_Due =>
              /\ InMode(info, "PreBreak")
              /\ info.last_mode_state.started_at >= info.last_checked
              /\ info.overrun = pre.overrun
        /\ C2_NotDue => ~InMode(info, "PreBreak")

\* The presence of C3: muted, or snoozed until a time not before the tick.
C3_Suppressed ==
    \/ pre.presence_mode = Muted
    \/ /\ pre.presence_mode.type = "snoozed_until"
       /\ pre.presence_mode.value >= info.last_checked

\* C3, first part: while suppressed no refresh moves Normal to PreBreak, and
\* progress_towards_break saturates at exactly time_to_break_secs.
C3_StaysNormalAndSaturates ==
    (RefreshedFrom("Normal") /\ C3_Suppressed) =>
        /\ InMode(info, "Normal")
        /\ info.last_mode_state.progress_towards_break
               <= Seconds(info.time_to_break_secs)
        /\ ( /\ is_user_active(pre.last_mode_state.idle_state)
             /\ Elapsed <= Seconds(FRAME_DROP_CUTOFF_POINT_SECS)
             /\ pre.last_mode_state.progress_towards_break + Elapsed
                    >= Seconds(pre.time_to_break_secs) )
           => info.last_mode_state.progress_towards_break
                  = Seconds(info.time_to_break_secs)

\* C3, second part: on a suppressed tick with progress_towards_break already
\* at the ceiling and the debounced state Active or ActiveGoingToIdle,
\* overrun grows by the elapsed time of the tick.
C3_OverrunGrows ==
    ( /\ RefreshedFrom("Normal")
      /\ C3_Suppressed
      /\ pre.last_mode_state.progress_towards_break
             = Seconds(pre.time_to_break_secs)
      /\ is_user_active(pre.last_mode_state.idle_state) )
    => info.overrun = pre.overrun + Elapsed

\* C3: while presence is Muted or an unexpired SnoozedUntil, a refresh keeps
\* Normal, progress_towards_break saturates at time_to_break_secs, and at
\* the ceiling with an active debounced state overrun grows by the elapsed
\* time.
C3_MutedAccumulatesOverrun == C3_StaysNormalAndSaturates /\ C3_OverrunGrows

\* C4, first part: a refresh replaces an expired SnoozedUntil by Active,
\* keeps an unexpired one, and never changes Muted.
C4_Promotion ==
    Called("refresh") =>
        info.presence_mode =
            IF /\ pre.presence_mode.type = "snoozed_until"
               /\ pre.presence_mode.value < info.last_checked
            THEN PresenceActive
            ELSE pre.presence_mode

\* C4, second part: the promotion takes effect before the rest of the tick,
\* so on the tick the snooze expires a Normal state with
\* progress_towards_break + D >= time_to_break_secs and D < 30 s enters
\* PreBreak.
C4_PreBreakOnExpiryTick ==
    ( /\ RefreshedFrom("Normal")
      /\ pre.presence_mode.type = "snoozed_until"
      /\ pre.presence_mode.value < info.last_checked
      /\ Elapsed < Seconds(FRAME_DROP_CUTOFF_POINT_SECS)
      /\ pre.last_mode_state.progress_towards_break + Elapsed
             >= Seconds(pre.time_to_break_secs) )
    => InMode(info, "PreBreak")

\* C4: every refresh promotes an expired SnoozedUntil to Active, and the
\* promotion is seen by the guards of the same tick.
C4_SnoozeExpiry == C4_Promotion /\ C4_PreBreakOnExpiryTick

\* C5: a refresh in PreBreak with presence Active moves to Break if and only
\* if the idle sample of that tick is at least 5 seconds; the Break then has
\* progress_towards_finish = 0, debounced state Idle since now minus the
\* idle seconds, and overrun increased by the elapsed time of the tick.
C5_PreBreakToBreak ==
    (RefreshedFrom("PreBreak") /\ pre.presence_mode = PresenceActive) =>
        /\ InMode(info, "Break")
               <=> Sample >= REQUIRED_PREBREAK_IDLE_STREAK_SECONDS
        /\ InMode(info, "Break") =>
              /\ info.last_mode_state
                     = Break(0, Idle(info.last_checked - Seconds(Sample)))
              /\ info.overrun = pre.overrun + Elapsed

\* C5's case: a break started from an unmuted PreBreak after time passed.
C5_Witness ==
    /\ RefreshedFrom("PreBreak")
    /\ pre.presence_mode = PresenceActive
    /\ InMode(info, "Break")
    /\ Elapsed > 0

\* C6: a refresh in PreBreak while presence is Muted or SnoozedUntil gives
\* Normal with progress_towards_break = time_to_break_secs and
\* progress_towards_reset = 0, whatever the idle sample, the elapsed time and
\* reading mode; overrun is carried over; the idle-streak rule does not
\* apply.
C6_MuteAbortsPreBreak ==
    (RefreshedFrom("PreBreak") /\ is_muted(pre)) =>
        /\ InMode(info, "Normal")
        /\ info.last_mode_state.progress_towards_break
               = Seconds(pre.time_to_break_secs)
        /\ info.last_mode_state.progress_towards_reset = 0
        /\ info.overrun = pre.overrun

\* C6's case: a muted PreBreak refreshed after a suspend with an idle sample
\* that satisfies the idle streak.
C6_Witness ==
    /\ RefreshedFrom("PreBreak")
    /\ is_muted(pre)
    /\ Sample >= REQUIRED_PREBREAK_IDLE_STREAK_SECONDS
    /\ Elapsed > Seconds(FRAME_DROP_CUTOFF_POINT_SECS)
    /\ pre.time_to_break_secs > 0

\* The debounced state a refresh computes from the idle state of pre.
DebouncedFromPre(in_break) ==
    MakeDebouncedIdleState(pre, Sample, pre.last_mode_state.idle_state, Elapsed, info.last_checked, lastOp.arg - Seconds(TRANSITION_THRESHOLD_SECS), in_break)

\* C7: a refresh in Break with progress_towards_finish + D >= break_length_secs
\* gives Normal with progress_towards_break = 0, progress_towards_reset =
\* break_length_secs, overrun = 0 and the debounced state the debounce step
\* computes from the break's idle state; otherwise the refresh stays in
\* Break.
C7_BreakConcluded ==
    RefreshedFrom("Break") =>
        IF pre.last_mode_state.progress_towards_finish + Elapsed
               >= Seconds(pre.break_length_secs)
        THEN /\ info.last_mode_state
                    = Normal(0, Seconds(pre.break_length_secs),
                             DebouncedFromPre(TRUE))
             /\ info.overrun = 0
        ELSE InMode(info, "Break")

\* C7's case: a break that had made progress ends exactly at its length.
C7_Witness ==
    /\ RefreshedFrom("Break")
    /\ InMode(info, "Normal")
    /\ pre.last_mode_state.progress_towards_finish > 0
    /\ pre.last_mode_state.progress_towards_finish + Elapsed
           = Seconds(pre.break_length_secs)

\* C8: in a Break tick that stays in Break with the debounced state on the
\* same side before and after: on the idle side progress_towards_finish
\* grows by the elapsed time (capped at break_length_secs) and overrun is
\* unchanged; on the active side progress_towards_finish is unchanged and
\* overrun grows by the elapsed time.
C8_BreakStatusQuo ==
    ( /\ RefreshedFrom("Break")
      /\ InMode(info, "Break")
      /\ is_user_active(pre.last_mode_state.idle_state)
             = is_user_active(info.last_mode_state.idle_state) )
    => IF is_user_active(pre.last_mode_state.idle_state)
       THEN /\ info.last_mode_state.progress_towards_finish
                   = pre.last_mode_state.progress_towards_finish
            /\ info.overrun = pre.overrun + Elapsed
       ELSE /\ info.last_mode_state.progress_towards_finish
                   = Min(Seconds(pre.break_length_secs),
                         pre.last_mode_state.progress_towards_finish + Elapsed)
            /\ info.overrun = pre.overrun

\* C8's case: an interrupted break, the user active before and after a tick
\* in which time passed.
C8_Witness ==
    /\ RefreshedFrom("Break")
    /\ InMode(info, "Break")
    /\ is_user_active(pre.last_mode_state.idle_state)
    /\ is_user_active(info.last_mode_state.idle_state)
    /\ Elapsed > 0

\* C9: trigger_break outside Normal, and skip_break or postpone_break outside
\* Break, return a snapshot equal to the state before the call and leave the
\* stored state unchanged.
C9_NoOpOverrides ==
    ( \/ Called("trigger_break") /\ ~InMode(pre, "Normal")
      \/ Called("skip_break") /\ ~InMode(pre, "Break")
      \/ Called("postpone_break") /\ ~InMode(pre, "Break") )
    => info = pre /\ ret = pre

\* C9's case: skip_break called in PreBreak at a time after the last check.
C9_Witness ==
    /\ Called("skip_break")
    /\ InMode(pre, "PreBreak")
    /\ clock > pre.last_checked

\* C10: trigger_break from Normal gives Break with progress_towards_finish
\* = 0 and debounced state Idle since last_checked; every other field is
\* unchanged.
C10_TriggerBreak ==
    (Called("trigger_break") /\ InMode(pre, "Normal")) =>
        /\ info.last_mode_state = Break(0, Idle(pre.last_checked))
        /\ SameButModeState(info, pre)
        /\ ret = info

\* C10's case: a break forced while muted, with progress and overrun made.
C10_Witness ==
    /\ Called("trigger_break")
    /\ InMode(pre, "Normal")
    /\ InMode(info, "Break")
    /\ pre.presence_mode = Muted
    /\ pre.last_mode_state.progress_towards_break > 0
    /\ pre.overrun > 0

\* C11: skip_break from Break gives Normal with progress_towards_break = 0,
\* progress_towards_reset = 0 and overrun = 0, the break's debounced idle
\* state kept as it was, and presence_mode, reading_mode and both settings
\* unchanged.
C11_SkipBreak ==
    (Called("skip_break") /\ InMode(pre, "Break")) =>
        /\ info.last_mode_state = Normal(0, 0, pre.last_mode_state.idle_state)
        /\ info.overrun = 0
        /\ info.presence_mode = pre.presence_mode
        /\ info.reading_mode = pre.reading_mode
        /\ info.time_to_break_secs = pre.time_to_break_secs
        /\ info.break_length_secs = pre.break_length_secs

\* C11's case: a break in progress, its debounced state in transition,
\* skipped at a later time than the last check.
C11_Witness ==
    /\ Called("skip_break")
    /\ InMode(pre, "Break")
    /\ pre.last_mode_state.progress_towards_finish > 0
    /\ pre.last_mode_state.idle_state.state = "IdleGoingToActive"
    /\ info.last_checked > pre.last_checked

\* C12's case: a postponed break, of d.
C12_Postponed == Called("postpone_break") /\ InMode(pre, "Break")

\* The first part of C12: postpone_break(d) from Break gives Normal with
\* progress_towards_break = time_to_break_secs - d, progress_towards_reset
\* = 0, overrun and debounced idle state kept.
C12_PostponeResult ==
    C12_Postponed =>
        /\ info.last_mode_state
               = Normal(Seconds(pre.time_to_break_secs) - lastOp.arg, 0,
                        pre.last_mode_state.idle_state)
        /\ info.overrun = pre.overrun

\* The second part of C12: with the settings unchanged since the
\* postponement, no refresh enters PreBreak before d has elapsed since it.
C12_Grace ==
    (RefreshedFrom("Normal") /\ InMode(info, "PreBreak") /\ grace.valid) =>
        info.last_checked - grace.since >= grace.d

\* C12: postpone_break(d) from Break gives Normal with progress_towards_break
\* = time_to_break_secs - d, progress_towards_reset = 0, overrun and
\* debounced idle state kept, and afterwards, the settings unchanged, no
\* refresh enters PreBreak before d of tick time has elapsed.
C12_PostponeBreak == C12_PostponeResult /\ C12_Grace

\* C12 where the postponement fits the work interval: the grace holds when
\* d <= time_to_break_secs.
C12_GraceWithinInterval ==
    (RefreshedFrom("Normal") /\ InMode(info, "PreBreak") /\ grace.valid
         /\ grace.d <= Seconds(pre.time_to_break_secs)) =>
        info.last_checked - grace.since >= grace.d

\* C13: snooze(t), mute() and unmute() change only presence_mode, in every
\* mode; the mode state, last_checked, idle_since_seconds, reading_mode, both
\* settings and overrun are unchanged, and the returned snapshot is the
\* stored state after the call.
C13_PresenceOnly ==
    (Called("snooze") \/ Called("mute") \/ Called("unmute")) =>
        /\ [info EXCEPT !.presence_mode = Muted]
               = [pre EXCEPT !.presence_mode = Muted]
        /\ info.presence_mode
               = IF Called("snooze") THEN SnoozedUntil(lastOp.arg)
                 ELSE IF Called("mute") THEN Muted
                 ELSE PresenceActive
        /\ ret = info

\* C13's case: mute while the pre-break prompt is up.
C13_Witness ==
    /\ Called("mute")
    /\ InMode(pre, "PreBreak")
    /\ pre.presence_mode = PresenceActive
    /\ info.presence_mode = Muted

\* A Normal tick that stays Normal.
NormalTick == RefreshedFrom("Normal") /\ InMode(info, "Normal")

\* C14: in a Normal tick that stays Normal, progress_towards_break grows by
\* the elapsed time (capped at time_to_break_secs) when the debounced state
\* is Active/ActiveGoingToIdle, and does not grow when it is
\* Idle/IdleGoingToActive.
C14_ActiveTimeOnly ==
    NormalTick =>
        IF is_user_active(pre.last_mode_state.idle_state)
        THEN info.last_mode_state.progress_towards_break
                 = Min(Seconds(pre.time_to_break_secs),
                       pre.last_mode_state.progress_towards_break + Elapsed)
        ELSE info.last_mode_state.progress_towards_break
                 <= pre.last_mode_state.progress_towards_break

\* C14 as amended: in a Normal tick that stays Normal with D at most 30 s
\* and at most time_to_break_secs, progress_towards_break grows by the
\* elapsed time (capped at time_to_break_secs) when the previous debounced
\* state is Active/ActiveGoingToIdle, and also when it is
\* Idle/IdleGoingToActive and progress_towards_reset + D is below
\* break_length_secs; when it is Idle/IdleGoingToActive and
\* progress_towards_reset + D has reached break_length_secs,
\* progress_towards_break becomes 0 if the new debounced state is
\* Idle/IdleGoingToActive and is unchanged otherwise.
C14_IdleTimeCountsUntilReset ==
    ( /\ NormalTick
      /\ Elapsed <= Seconds(FRAME_DROP_CUTOFF_POINT_SECS)
      /\ Elapsed <= Seconds(pre.time_to_break_secs) )
    => LET m == pre.last_mode_state
       IN  IF is_user_active(m.idle_state)
              \/ m.progress_towards_reset + Elapsed
                     < Seconds(pre.break_length_secs)
           THEN info.last_mode_state.progress_towards_break
                    = Min(Seconds(pre.time_to_break_secs),
                          m.progress_towards_break + Elapsed)
           ELSE info.last_mode_state.progress_towards_break
                    = IF is_user_active(info.last_mode_state.idle_state)
                      THEN m.progress_towards_break
                      ELSE 0

\* C14's case: an idle tick, short of the reset, that counts towards the
\* next break.
C14_Witness ==
    /\ NormalTick
    /\ Elapsed <= Seconds(pre.time_to_break_secs)
    /\ ~is_user_active(pre.last_mode_state.idle_state)
    /\ ~is_user_active(info.last_mode_state.idle_state)
    /\ info.last_mode_state.progress_towards_break
           > pre.last_mode_state.progress_towards_break

\* The tick C15 speaks of: idle before and after, the reset threshold
\* reached.
C15_ResetTick ==
    /\ NormalTick
    /\ ~is_user_active(pre.last_mode_state.idle_state)
    /\ ~is_user_active(info.last_mode_state.idle_state)
    /\ pre.last_mode_state.progress_towards_reset + Elapsed
           >= Seconds(pre.break_length_secs)

\* First part of C15: on such a tick progress_towards_break becomes 0,
\* progress_towards_reset becomes break_length_secs and overrun becomes 0.
C15_ResetEffect ==
    C15_ResetTick =>
        /\ info.last_mode_state.progress_towards_break = 0
        /\ info.last_mode_state.progress_towards_reset
               = Seconds(pre.break_length_secs)
        /\ info.overrun = 0

\* Second part of C15: a Normal tick with D <= time_to_break_secs takes a
\* non-zero progress_towards_break to 0 only on such a tick.
C15_ResetOnlyThen ==
    ( /\ NormalTick
      /\ Elapsed <= Seconds(pre.time_to_break_secs)
      /\ pre.last_mode_state.progress_towards_break > 0
      /\ info.last_mode_state.progress_towards_break = 0 )
    => C15_ResetTick

\* C15: in Normal mode a tick resets progress_towards_break to 0 because of
\* idleness exactly when the previous debounced state is idle, the new one
\* is idle and progress_towards_reset + D >= break_length_secs; on that tick
\* progress_towards_reset becomes break_length_secs and overrun becomes 0;
\* no tick with D <= time_to_break_secs resets a non-zero
\* progress_towards_break while the idle time is shorter than
\* break_length_secs.
C15_IdleReset == C15_ResetEffect /\ C15_ResetOnlyThen

\* C16: in a Normal tick, progress_towards_reset after the tick is 0 when
\* the new debounced state is Active or ActiveGoingToIdle or is an Idle state
\* with idle_since = now, and otherwise (Idle since earlier, or
\* IdleGoingToActive) it is min(break_length_secs, previous
\* progress_towards_reset + D).
C16_ProgressTowardsReset ==
    NormalTick =>
        LET new_idle_state == info.last_mode_state.idle_state
        IN  info.last_mode_state.progress_towards_reset
                = IF \/ is_user_active(new_idle_state)
                     \/ /\ new_idle_state.state = "Idle"
                        /\ new_idle_state.idle_since = info.last_checked
                  THEN 0
                  ELSE Min(Seconds(pre.break_length_secs),
                           pre.last_mode_state.progress_towards_reset
                               + Elapsed)

\* C16's case: the tick of a suspend on which an active user is put to Idle,
\* progress_towards_reset staying 0 although time passed.
C16_Witness ==
    /\ NormalTick
    /\ is_user_active(pre.last_mode_state.idle_state)
    /\ info.last_mode_state.idle_state = Idle(info.last_checked)
    /\ Elapsed > 0
    /\ pre.break_length_secs > 0
    /\ info.last_mode_state.progress_towards_reset = 0

\* C17: a refresh in Normal with elapsed time D > time_to_break_secs that
\* stays in Normal gives progress_towards_break = 0, for every previous
\* debounced state, idle sample and pair of settings.
C17_SuspendGuard ==
    (NormalTick /\ Elapsed > Seconds(pre.time_to_break_secs)) =>
        info.last_mode_state.progress_towards_break = 0

\* What holds of C17 in the code: after such a tick progress_towards_break
\* is 0 or the whole of time_to_break_secs.
C17_ZeroOrDue ==
    (NormalTick /\ Elapsed > Seconds(pre.time_to_break_secs)) =>
        info.last_mode_state.progress_towards_break
            \in {0, Seconds(pre.time_to_break_secs)}

\* The tick C18 speaks of: the user active before it, more than 30 s since
\* the last sample.
C18_FrameDropTick ==
    /\ Called("refresh")
    /\ pre.last_mode_state.state \in {"Normal", "Break"}
    /\ is_user_active(pre.last_mode_state.idle_state)
    /\ Elapsed > Seconds(FRAME_DROP_CUTOFF_POINT_SECS)

\* What C18 says of the debounced state and of progress_towards_reset.
C18_ForcedIdle ==
    /\ info.last_mode_state.state \in {"Normal", "Break"}
    /\ info.last_mode_state.idle_state = Idle(info.last_checked)
    /\ InMode(pre, "Normal") =>
          /\ InMode(info, "Normal")
          /\ info.last_mode_state.progress_towards_reset = 0

\* C18: when the previous debounced state is Active or ActiveGoingToIdle and
\* more than 30 s elapsed since the last sample, the next debounced state is
\* Idle since the sample time, whatever the idle sample, reading mode and
\* mode (Normal or Break); in Normal that tick leaves progress_towards_break
\* unchanged and sets progress_towards_reset to 0.
C18_FrameDrop ==
    C18_FrameDropTick =>
        /\ C18_ForcedIdle
        /\ InMode(pre, "Normal") =>
              info.last_mode_state.progress_towards_break
                  = pre.last_mode_state.progress_towards_break

\* C18 as amended: the same, but in Normal the tick leaves
\* progress_towards_break unchanged when D <= time_to_break_secs and sets it
\* to 0 when D > time_to_break_secs.
C18_FrameDropWithSuspendGuard ==
    C18_FrameDropTick =>
        /\ C18_ForcedIdle
        /\ InMode(pre, "Normal") =>
              info.last_mode_state.progress_towards_break
                  = IF Elapsed > Seconds(pre.time_to_break_secs)
                    THEN 0
                    ELSE pre.last_mode_state.progress_towards_break

\* C18's case: a gap of more than 30 s and less than time_to_break_secs with
\* the user active before it, a sample of 0 after it and progress made.
C18_Witness ==
    /\ C18_FrameDropTick
    /\ InMode(pre, "Normal")
    /\ Sample = 0
    /\ Elapsed <= Seconds(pre.time_to_break_secs)
    /\ pre.last_mode_state.progress_towards_break > 0
    /\ info.last_mode_state.progress_towards_break
           = pre.last_mode_state.progress_towards_break

\* C19: from Active{active_since = t0}, a refresh whose idle sample is 0 and
\* whose elapsed time is at most 30 s leaves the debounced state Active with
\* active_since = t0, as long as the mode after it carries a debounced state
\* (Normal or Break); so it is over any sequence of such refreshes.
C19_ActiveStaysActive ==
    ( /\ Called("refresh")
      /\ pre.last_mode_state.state \in {"Normal", "Break"}
      /\ pre.last_mode_state.idle_state.state = "Active"
      /\ Sample = 0
      /\ Elapsed <= Seconds(FRAME_DROP_CUTOFF_POINT_SECS)
      /\ info.last_mode_state.state \in {"Normal", "Break"} )
    => info.last_mode_state.idle_state = pre.last_mode_state.idle_state

\* C19's case: a later refresh of such a sequence, time having passed since
\* t0 and during the tick.
C19_Witness ==
    /\ RefreshedFrom("Normal")
    /\ InMode(info, "Normal")
    /\ pre.last_mode_state.idle_state.state = "Active"
    /\ pre.last_mode_state.idle_state.active_since < pre.last_checked
    /\ Sample = 0
    /\ Elapsed > 0
    /\ info.last_mode_state.idle_state = pre.last_mode_state.idle_state

\* The snapshot given to IdleMonitor::new.
Snapshot == lastOp.arg.state

\* The condition under which C20 says the saved timers are reused.
C20_Reuse ==
    /\ lastOp.arg.some
    /\ (info.last_checked - Snapshot.last_checked)
           + Snapshot.progress_towards_reset
         < Seconds(Snapshot.break_length_secs)

\* The saved timers were reused: the saved progress_towards_break kept, the
\* debounced state Idle since the snapshot's last_checked.
TimersReused ==
    /\ info.last_mode_state.progress_towards_break
           = Snapshot.progress_towards_break
    /\ info.last_mode_state.idle_state = Idle(Snapshot.last_checked)

\* C20: IdleMonitor::new with a snapshot s at time now reuses the saved
\* timers if and only if (now - s.last_checked) + s.progress_towards_reset <
\* s.break_length_secs; otherwise, and with no snapshot, the monitor starts in
\* Normal with both progress counters 0, debounced state Active since now and
\* overrun 0 (and, with no snapshot, presence Active, reading mode off and
\* the settings 1200 s / 90 s).
C20_RestoreDecision ==
    Called("new") =>
        /\ InMode(info, "Normal")
        /\ IF C20_Reuse
           THEN TimersReused
           ELSE /\ info.last_mode_state
                       = Normal(0, 0, Active(info.last_checked))
                /\ info.overrun = 0
        /\ ~lastOp.arg.some =>
              /\ info.presence_mode = PresenceActive
              /\ info.reading_mode = FALSE
              /\ info.time_to_break_secs = DEFAULT_TIME_TO_BREAK_SECS
              /\ info.break_length_secs = DEFAULT_BREAK_LENGTH_SECS

\* What holds of C20 in the code: the decision compares with the default
\* break length of 90 s, not with the snapshot's.
C20_DecisionOnDefault ==
    Called("new") =>
        /\ InMode(info, "Normal")
        /\ IF /\ lastOp.arg.some
              /\ (info.last_checked - Snapshot.last_checked)
                     + Snapshot.progress_towards_reset
                   < Seconds(DEFAULT_BREAK_LENGTH_SECS)
           THEN TimersReused
           ELSE /\ info.last_mode_state
                       = Normal(0, 0, Active(info.last_checked))
                /\ info.overrun = 0

\* The restore continued the saved timers: the monitor starts out Idle, which
\* IdleMonitor::new does in no other case.
C21_Continued ==
    /\ Called("new")
    /\ lastOp.arg.some
    /\ info.last_mode_state.idle_state.state = "Idle"

\* presence_mode, reading_mode and both settings are the snapshot's.
C21_CarriedOver ==
    /\ info.presence_mode = Snapshot.presence_mode
    /\ info.reading_mode = Snapshot.reading_mode
    /\ info.time_to_break_secs = Snapshot.time_to_break_secs
    /\ info.break_length_secs = Snapshot.break_length_secs

\* C21: when a restore continues the saved timers, the new state is Normal
\* with progress_towards_break = s.progress_towards_break,
\* progress_towards_reset = min(s.break_length_secs, s.progress_towards_reset
\* + elapsed) and debounced state Idle since s.last_checked; and whether it
\* continues or starts clean, presence_mode, reading_mode, time_to_break_secs
\* and break_length_secs equal the snapshot's (an expired SnoozedUntil too).
C21_RestoreContinues ==
    /\ C21_Continued =>
           info.last_mode_state
               = Normal(Snapshot.progress_towards_break,
                        Min(Seconds(Snapshot.break_length_secs),
                            Snapshot.progress_towards_reset
                                + (info.last_checked - Snapshot.last_checked)),
                        Idle(Snapshot.last_checked))
    /\ Called("new") /\ lastOp.arg.some => C21_CarriedOver

\* What holds of C21 in the code: the ceiling of the recomputed
\* progress_towards_reset is the default break length of 90 s.
C21_CeilingIsDefault ==
    /\ C21_Continued =>
           info.last_mode_state
               = Normal(Snapshot.progress_towards_break,
                        Min(Seconds(DEFAULT_BREAK_LENGTH_SECS),
                            Snapshot.progress_towards_reset
                                + (info.last_checked - Snapshot.last_checked)),
                        Idle(Snapshot.last_checked))
    /\ Called("new") /\ lastOp.arg.some => C21_CarriedOver

\* The monitor that IdleMonitor::new builds from the snapshot exported by the
\* current one, at the instant of the export.
C22_Reborn == New(info.last_checked, Some(ExportPersistableState(info)))

\* C22: for every reachable state, exporting the snapshot and constructing a
\* new monitor from it at the same instant gives a Normal state whose
\* progress_towards_break and progress_towards_reset are the exported ones and
\* whose presence_mode and reading_mode are the exporting monitor's, also when
\* the exported progress_towards_reset equals break_length_secs.
C22_RoundTrip ==
    LET exported == ExportPersistableState(info)
    IN  /\ InMode(C22_Reborn, "Normal")
        /\ C22_Reborn.last_mode_state.progress_towards_break
               = exported.progress_towards_break
        /\ C22_Reborn.last_mode_state.progress_towards_reset
               = exported.progress_towards_reset
        /\ C22_Reborn.presence_mode = info.presence_mode
        /\ C22_Reborn.reading_mode = info.reading_mode

\* What holds of C22 in the code: the round trip is exact as long as the
\* exported progress_towards_reset is below the default break length of 90 s.
C22_RoundTripBelowDefault ==
    ExportPersistableState(info).progress_towards_reset
            < Seconds(DEFAULT_BREAK_LENGTH_SECS)
        => C22_RoundTrip

\* C23: set_time_to_break(n) stores n and leaves progress_towards_break at
\* exactly min(previous progress_towards_break, n); set_break_length(n)
\* stores n and leaves progress_towards_reset at exactly min(previous
\* progress_towards_reset, n) and, in Break, progress_towards_finish <= n. A
\* counter at or below n, sub-second part included, is not changed, and the
\* clamped counter is within its bounds right after the call.
C23_SettersClamp ==
    LET m == info.last_mode_state
        n == Seconds(lastOp.arg)
    IN  /\ Called("set_time_to_break") =>
              /\ info.time_to_break_secs = lastOp.arg
              /\ InMode(pre, "Normal") =>
                    /\ m.progress_towards_break
                           = Min(pre.last_mode_state.progress_towards_break, n)
                    /\ m.progress_towards_break <= n
        /\ Called("set_break_length") =>
              /\ info.break_length_secs = lastOp.arg
              /\ InMode(pre, "Normal") =>
                    /\ m.progress_towards_reset
                           = Min(pre.last_mode_state.progress_towards_reset, n)
                    /\ m.progress_towards_reset <= n
              /\ InMode(pre, "Break") => m.progress_towards_finish <= n

\* What holds of C23 in the code: the setters store n, clamp the Normal
\* counter after dropping its sub-second part, and leave Break as it is.
C23_WholeSecondsOnly ==
    LET m == info.last_mode_state
    IN  /\ Called("set_time_to_break") =>
              /\ info.time_to_break_secs = lastOp.arg
              /\ InMode(pre, "Normal") =>
                    m.progress_towards_break
                        = Seconds(Min(NumSeconds(
                              pre.last_mode_state.progress_towards_break),
                              lastOp.arg))
              /\ ~InMode(pre, "Normal") => m = pre.last_mode_state
        /\ Called("set_break_length") =>
              /\ info.break_length_secs = lastOp.arg
              /\ InMode(pre, "Normal") =>
                    m.progress_towards_reset
                        = Seconds(Min(NumSeconds(
                              pre.last_mode_state.progress_towards_reset),
                              lastOp.arg))
              /\ ~InMode(pre, "Normal") => m = pre.last_mode_state

\* Everything set_reading_mode(b) is said to leave alone: the flag is b, and
\* presence_mode, overrun, last_checked, the idle sample and both settings,
\* the PreBreak mode and the progress counters are as before.
C24_Frame ==
    LET m == info.last_mode_state
        before == pre.last_mode_state
    IN  /\ info.reading_mode = lastOp.arg.reading_mode
        /\ SameButModeState(info, [pre EXCEPT !.reading_mode = info.reading_mode])
        /\ m.state = before.state
        /\ InMode(pre, "PreBreak") => m = before
        /\ InMode(pre, "Normal") =>
              /\ m.progress_towards_break = before.progress_towards_break
              /\ m.progress_towards_reset = before.progress_towards_reset
        /\ InMode(pre, "Break") =>
              m.progress_towards_finish = before.progress_towards_finish

\* The debounced state before set_reading_mode, outside PreBreak.
C24_Before == pre.last_mode_state.idle_state

\* C24: set_reading_mode(b), for either b, sets the flag and turns only the
\* transitional debounced states into Active: ActiveGoingToIdle becomes
\* Active with the same active_since, IdleGoingToActive becomes Active since
\* now, and the stable states Active and Idle, the PreBreak mode, the
\* counters, presence_mode, overrun, last_checked and both settings stay.
C24_OnlyTransitional ==
    Called("set_reading_mode") =>
        /\ C24_Frame
        /\ ~InMode(pre, "PreBreak") =>
              info.last_mode_state.idle_state
                  = CASE C24_Before.state = "Active" -> C24_Before
                      [] C24_Before.state = "ActiveGoingToIdle"
                            -> Active(C24_Before.active_since)
                      [] C24_Before.state = "IdleGoingToActive"
                            -> Active(lastOp.arg.check_time)
                      [] C24_Before.state = "Idle" -> C24_Before

\* C24 as the code has it: Idle, too, becomes Active since now; only Active
\* is left as it is.
C24_EveryStateToActive ==
    Called("set_reading_mode") =>
        /\ C24_Frame
        /\ ~InMode(pre, "PreBreak") =>
              info.last_mode_state.idle_state
                  = CASE C24_Before.state = "Active" -> C24_Before
                      [] C24_Before.state = "ActiveGoingToIdle"
                            -> Active(C24_Before.active_since)
                      [] C24_Before.state = "IdleGoingToActive"
                            -> Active(lastOp.arg.check_time)
                      [] C24_Before.state = "Idle"
                            -> Active(lastOp.arg.check_time)

\* set_reading_mode was called on a monitor that was Idle in Normal mode and
\* had been idle since before the call.
C24_Witness ==
    /\ Called("set_reading_mode")
    /\ InMode(pre, "Normal")
    /\ C24_Before.state = "Idle"
    /\ C24_Before.idle_since < lastOp.arg.check_time

\* C25: export_persistable_state never changes the monitor state and returns
\* last_checked, presence_mode, reading_mode, time_to_break_secs and
\* break_length_secs of the current state, with progress_towards_break and
\* progress_towards_reset the Normal-mode counters in Normal and both 0 in
\* PreBreak and in Break.
C25_Export ==
    Called("export_persistable_state") =>
        /\ info = pre
        /\ ret.last_checked = pre.last_checked
        /\ ret.presence_mode = pre.presence_mode
        /\ ret.reading_mode = pre.reading_mode
        /\ ret.time_to_break_secs = pre.time_to_break_secs
        /\ ret.break_length_secs = pre.break_length_secs
        /\ InMode(pre, "Normal") =>
              /\ ret.progress_towards_break
                     = pre.last_mode_state.progress_towards_break
              /\ ret.progress_towards_reset
                     = pre.last_mode_state.progress_towards_reset
        /\ ~InMode(pre, "Normal") =>
              /\ ret.progress_towards_break = 0
              /\ ret.progress_towards_reset = 0

\* A snapshot was exported during a break that had made progress.
C25_Witness ==
    /\ Called("export_persistable_state")
    /\ InMode(pre, "Break")
    /\ pre.last_mode_state.progress_towards_finish > 0

\* The state file carries the presence mode of the monitor.
C26_Carried(file, self) ==
    /\ OnDisk(file)
    /\ file.state.presence_mode = self.presence_mode

\* C26: once mute() or snooze(t) has returned with its write to the state
\* file done, the file carries the new presence_mode and keeps carrying it
\* until the presence changes again, whatever the monitor loop's periodic
\* save (snapshot exported under the lock, written after it) does in
\* between: no step that leaves a muted or snoozed presence as it is takes it
\* off the file, so a restart at any later moment restores it.
C26_Durable ==
    [][/\ lastOp'.name \in {"mute", "snooze"} /\ disk' # disk
             => C26_Carried(disk', info')
       /\ (/\ info.presence_mode # PresenceActive
           /\ C26_Carried(disk, info)
           /\ info'.presence_mode = info.presence_mode)
             => C26_Carried(disk', info')]_vars

\* What holds of C26 in the code: the writes made by mute, snooze and unmute
\* themselves, under the lock, leave the file carrying the presence mode; only
\* the monitor loop's late write can take it off.
C26_DurableButForLateWrite ==
    [][/\ lastOp'.name \in {"mute", "snooze"} /\ disk' # disk
             => C26_Carried(disk', info')
       /\ (/\ info.presence_mode # PresenceActive
           /\ C26_Carried(disk, info)
           /\ lastOp'.name # "save_to_disk"
           /\ info'.presence_mode = info.presence_mode)
             => C26_Carried(disk', info')]_vars

\* The monitor loop has written its snapshot over the one mute() wrote: the
\* monitor is muted and the state file says presence Active.
C26_MuteLost ==
    /\ Called("save_to_disk")
    /\ ret = TRUE
    /\ info.presence_mode = Muted
    /\ OnDisk(disk)
    /\ disk.state.presence_mode = PresenceActive

\* A debounced state on the idle side: Idle or IdleGoingToActive.
C27_IdleSide(idle_state) == idle_state.state \in {"Idle", "IdleGoingToActive"}

\* The ticks C27 is about: Normal to Normal, idle side to idle side, with D
\* at most time_to_break_secs and short of completing the reset.
C27_IdleTick ==
    /\ NormalTick
    /\ C27_IdleSide(pre.last_mode_state.idle_state)
    /\ C27_IdleSide(info.last_mode_state.idle_state)
    /\ Elapsed <= Seconds(pre.time_to_break_secs)
    /\ pre.last_mode_state.progress_towards_reset + Elapsed
           < Seconds(pre.break_length_secs)

C28_PreBreakWaits ==
    (/\ RefreshedFrom("PreBreak")
     /\ pre.presence_mode = PresenceActive
     /\ Sample < REQUIRED_PREBREAK_IDLE_STREAK_SECONDS) =>
        /\ info.last_mode_state = pre.last_mode_state
        /\ info.overrun = pre.overrun + Elapsed
        /\ SameButModeState([info EXCEPT !.overrun = 0,
                                         !.last_checked = 0,
                                         !.idle_since_seconds = 0],
                            [pre EXCEPT !.overrun = 0,
                                        !.last_checked = 0,
                                        !.idle_since_seconds = 0])

\* A second waiting tick in PreBreak: the user touched the machine after a
\* partial idle streak, time passed, and overrun had already grown.
C28_Witness ==
    /\ RefreshedFrom("PreBreak")
    /\ pre.presence_mode = PresenceActive
    /\ pre.idle_since_seconds > 0
    /\ Sample = 0
    /\ Elapsed > 0
    /\ pre.overrun > 0

\* The rule table of C29, with the finalization cutoff of IdleGoingToActive
\* left open.
C29_Rule(prev, sample, elapsed, time, reading_mode, in_break, cutoff) ==
    IF prev.state \in {"Active", "ActiveGoingToIdle"}
       /\ elapsed > Seconds(FRAME_DROP_CUTOFF_POINT_SECS)
    THEN Idle(time)
    ELSE CASE prev.state = "Active" ->
                  IF sample = 0 \/ (reading_mode /\ ~in_break)
                  THEN prev
                  ELSE ActiveGoingToIdle(prev.active_since, time)
           [] prev.state = "ActiveGoingToIdle" ->
                  IF sample = 0
                  THEN Active(prev.active_since)
                  ELSE IF sample <= TRANSITION_THRESHOLD_SECS
                  THEN prev
                  ELSE Idle(time)
           [] prev.state = "IdleGoingToActive" ->
                  IF prev.transitioning_since > cutoff
                  THEN prev
                  ELSE IF sample <= END_OF_ACTIVE_PUSHING_TRANSITION_WINDOW
                  THEN Active(time)
                  ELSE Idle(prev.idle_since)
           [] prev.state = "Idle" ->
                  IF sample = 0
                  THEN IdleGoingToActive(prev.idle_since, time)
                  ELSE prev

\* The refreshes that debounce the previous debounced state: those that
\* start in Normal or Break and end in a mode with a debounced state.
C29_Debounced ==
    /\ Called("refresh")
    /\ pre.last_mode_state.state \in {"Normal", "Break"}
    /\ info.last_mode_state.state \in {"Normal", "Break"}

\* C29: for every previous debounced state, idle sample, elapsed time, sample
\* time, reading-mode flag and in-break flag the debounce step returns what
\* the ordered rule table gives: the frame-drop rule first; Active stays on
\* sample 0 and otherwise starts ActiveGoingToIdle (unless reading mode
\* outside a break); ActiveGoingToIdle reverts to Active on 0, stays on 1..3,
\* becomes Idle since the sample time above 3; IdleGoingToActive stays until
\* transitioning_since <= sample time - 3 s and then becomes Active since
\* the sample time on a sample <= 1, else Idle with its old idle_since;
\* Idle starts IdleGoingToActive on 0 and otherwise stays.
C29_DebounceTable ==
    C29_Debounced =>
        info.last_mode_state.idle_state
            = C29_Rule(pre.last_mode_state.idle_state, Sample, Elapsed,
                       info.last_checked, pre.reading_mode,
                       InMode(pre, "Break"),
                       info.last_checked - Seconds(TRANSITION_THRESHOLD_SECS))

\* What holds of C29 in the code: the table with the cutoff taken from a
\* second, later read of the clock.
C29_DebounceTableLaterCutoff ==
    C29_Debounced =>
        info.last_mode_state.idle_state
            = C29_Rule(pre.last_mode_state.idle_state, Sample, Elapsed,
                       info.last_checked, pre.reading_mode,
                       InMode(pre, "Break"),
                       lastOp.arg - Seconds(TRANSITION_THRESHOLD_SECS))

\* The ticks of C30: a refresh from an Active debounced state with reading
\* mode on and at most 30 s elapsed.
C30_ReadingTick(m) ==
    /\ RefreshedFrom(m)
    /\ pre.reading_mode
    /\ pre.last_mode_state.idle_state.state = "Active"
    /\ Elapsed <= Seconds(FRAME_DROP_CUTOFF_POINT_SECS)

\* C30: with reading mode on, a Normal tick with elapsed time <= 30 s leaves
\* an Active debounced state Active with its active_since, whatever the idle
\* sample, so progress_towards_reset stays 0 and progress_towards_break is
\* not reset by idleness (it advances by D up to its ceiling when D is at
\* most time_to_break_secs); inside a break reading mode has no such effect:
\* a non-zero idle sample moves Active to ActiveGoingToIdle.
C30_ReadingMode ==
    /\ (C30_ReadingTick("Normal") /\ InMode(info, "Normal")) =>
          /\ info.last_mode_state.idle_state = pre.last_mode_state.idle_state
          /\ info.last_mode_state.progress_towards_reset = 0
          /\ Elapsed <= Seconds(pre.time_to_break_secs) =>
                info.last_mode_state.progress_towards_break
                    = Min(Seconds(pre.time_to_break_secs),
                          pre.last_mode_state.progress_towards_break + Elapsed)
    /\ (C30_ReadingTick("Break") /\ ~InMode(info, "PreBreak") /\ Sample > 0) =>
          info.last_mode_state.idle_state
              = ActiveGoingToIdle(pre.last_mode_state.idle_state.active_since,
                                  info.last_checked)

\* Reading in Normal mode: a tick in which time passed and the idle sample
\* was above the 3 s threshold, the monitor Active since before.
C30_Witness ==
    /\ C30_ReadingTick("Normal")
    /\ InMode(info, "Normal")
    /\ Sample > TRANSITION_THRESHOLD_SECS
    /\ Elapsed > 0
    /\ pre.last_mode_state.progress_towards_break > 0

\* Reading during a break: a tick with a non-zero idle sample.
C30_WitnessInBreak ==
    /\ C30_ReadingTick("Break")
    /\ InMode(info, "Break")
    /\ Sample > 0

\* The refresh entered PreBreak from Normal.
C31_EnteredPreBreak == RefreshedFrom("Normal") /\ InMode(info, "PreBreak")

\* C31: each refresh reads the idle source once and the clock once, so every
\* timestamp it writes comes from one instant even when the clock advances
\* between reads: on entering PreBreak started_at is the new last_checked,
\* and the cutoff that finalizes IdleGoingToActive is the new last_checked
\* minus 3 s.
C31_OneInstant ==
    Called("refresh") =>
        /\ C31_EnteredPreBreak =>
              info.last_mode_state.started_at = info.last_checked
        /\ lastOp.arg - Seconds(TRANSITION_THRESHOLD_SECS)
               = info.last_checked - Seconds(TRANSITION_THRESHOLD_SECS)

\* What holds of C31 in the code: the later reads of the clock are not
\* before the first, and the clock is left at the last of them.
C31_LaterReads ==
    Called("refresh") =>
        /\ C31_EnteredPreBreak =>
              /\ info.last_mode_state.started_at >= info.last_checked
              /\ info.last_mode_state.started_at = clock
        /\ lastOp.arg >= info.last_checked
        /\ lastOp.arg <= clock

\* The last call changed the mode from one variant to another.
C32_Moved(from, to) == InMode(pre, from) /\ InMode(info, to)

\* C32: the mode changes only along Normal to PreBreak (refresh), PreBreak
\* to Break (refresh), PreBreak to Normal (refresh while muted or snoozed),
\* Break to Normal (refresh, skip_break, postpone_break) and Normal to Break
\* (trigger_break only); so a refresh never moves Normal to Break, nothing
\* moves Break to PreBreak, and mute, snooze, unmute, set_reading_mode,
\* set_time_to_break and set_break_length never change the mode variant;
\* and started_at never changes while PreBreak lasts.
C32_TransitionGraph ==
    /\ pre.last_mode_state.state # info.last_mode_state.state =>
          \/ C32_Moved("Normal", "PreBreak") /\ Called("refresh")
          \/ C32_Moved("PreBreak", "Break") /\ Called("refresh")
          \/ C32_Moved("PreBreak", "Normal") /\ Called("refresh")
                 /\ is_muted(pre)
          \/ C32_Moved("Break", "Normal")
                 /\ lastOp.name \in {"refresh", "skip_break", "postpone_break"}
          \/ C32_Moved("Normal", "Break") /\ Called("trigger_break")
    /\ C32_Moved("PreBreak", "PreBreak") =>
          info.last_mode_state.started_at = pre.last_mode_state.started_at

\* trigger_break was called while waiting in PreBreak, where it has to leave
\* the mode alone.
C32_Witness ==
    /\ Called("trigger_break")
    /\ C32_Moved("PreBreak", "PreBreak")

\* The ticks of C33: a refresh that stays in Break, time having passed and
\* progress_towards_finish + D short of the break length.
C33_BreakTick ==
    /\ RefreshedFrom("Break")
    /\ InMode(info, "Break")
    /\ Elapsed > 0
    /\ pre.last_mode_state.progress_towards_finish + Elapsed
           < Seconds(pre.break_length_secs)

\* progress_towards_finish grew by the elapsed time of the tick.
C33_Rested ==
    info.last_mode_state.progress_towards_finish
        = pre.last_mode_state.progress_towards_finish + Elapsed

\* overrun grew by the elapsed time of the tick.
C33_Overran == info.overrun = pre.overrun + Elapsed

\* C33: in every Break tick that stays in Break with D > 0 and
\* progress_towards_finish + D below the cap, exactly one of
\* progress_towards_finish and overrun increases by D and the other stays,
\* also on ticks where the debounced state changes side: the elapsed time is
\* counted once, never in both counters and never in neither.
C33_CountedOnce ==
    C33_BreakTick =>
        \/ /\ C33_Rested
           /\ info.overrun = pre.overrun
        \/ /\ C33_Overran
           /\ info.last_mode_state.progress_towards_finish
                  = pre.last_mode_state.progress_towards_finish

\* What holds of C33 in the code: progress_towards_finish follows the
\* debounced state after the tick and overrun the one before it.
C33_EachByItsOwnState ==
    C33_BreakTick =>
        /\ IF is_user_active(info.last_mode_state.idle_state)
           THEN info.last_mode_state.progress_towards_finish
                    = pre.last_mode_state.progress_towards_finish
           ELSE C33_Rested
        /\ IF is_user_active(pre.last_mode_state.idle_state)
           THEN C33_Overran
           ELSE info.overrun = pre.overrun

\* A refresh in Break with the user on the active side (Active or
\* ActiveGoingToIdle) both before and after the tick.
C34_ActiveTick ==
    /\ RefreshedFrom("Break")
    /\ is_user_active(pre.last_mode_state.idle_state)
    /\ is_user_active(info.last_mode_state.idle_state)

\* C34: a break never completes on time the user spent active: a refresh in
\* Break whose debounced state is Active or ActiveGoingToIdle both before
\* and after the tick does not move to Normal, whatever
\* progress_towards_finish and the elapsed time are.
C34_NoCompletionWhileActive == C34_ActiveTick => InMode(info, "Break")

\* What holds of C34 in the code: an active tick ends the break exactly when
\* progress_towards_finish + D has reached the break length, and otherwise
\* leaves progress_towards_finish where it was.
C34_ActiveTickEndsAtCap ==
    C34_ActiveTick =>
        IF pre.last_mode_state.progress_towards_finish + Elapsed
               >= Seconds(pre.break_length_secs)
        THEN InMode(info, "Normal")
        ELSE /\ InMode(info, "Break")
             /\ info.last_mode_state.progress_towards_finish
                    = pre.last_mode_state.progress_towards_finish

\* A Normal state whose progress_towards_break is below its ceiling.
C35_BelowCeiling(self) ==
    /\ InMode(self, "Normal")
    /\ self.last_mode_state.progress_towards_break
           < Seconds(self.time_to_break_secs)

C35_Tick ==
    /\ NormalTick
    /\ C35_BelowCeiling(pre)
    /\ pre.last_mode_state.progress_towards_break >= 0
    /\ NumSeconds(pre.last_mode_state.progress_towards_reset + Elapsed)
           < pre.break_length_secs

C36_GapTick ==
    /\ NormalTick
    /\ Elapsed > Seconds(FRAME_DROP_CUTOFF_POINT_SECS)

\* C36: clock-jump ticks never count as work time: no refresh with elapsed
\* time D > 30 s increases progress_towards_break, whatever the previous
\* debounced state and presence mode.
C36_GapNeverCounts ==
    C36_GapTick =>
        info.last_mode_state.progress_towards_break
            <= pre.last_mode_state.progress_towards_break

\* C36 as the code has it: a gap above the cut-off is left out of
\* progress_towards_break when the previous debounced state is Active or
\* ActiveGoingToIdle, whatever the presence mode (the counter is unchanged,
\* or 0 when the gap is longer than time_to_break_secs); after Idle or
\* IdleGoingToActive it counts like any other idle time, until
\* progress_towards_reset + D reaches break_length_secs.
C36_ActiveGapNeverCounts ==
    C36_GapTick =>
        LET old  == pre.last_mode_state.progress_towards_break
            new  == info.last_mode_state.progress_towards_break
            base == IF Elapsed > Seconds(pre.time_to_break_secs) THEN 0 ELSE old
        IN  IF is_user_active(pre.last_mode_state.idle_state)
            THEN new = base
            ELSE IF pre.last_mode_state.progress_towards_reset + Elapsed
                        >= Seconds(pre.break_length_secs)
            THEN new \in {0, base}
            ELSE new = Min(Seconds(pre.time_to_break_secs), base + Elapsed)

\* A gap after an idle state that is counted: progress_towards_break grows.
C36_Witness ==
    /\ C36_GapTick
    /\ ~is_user_active(pre.last_mode_state.idle_state)
    /\ info.last_mode_state.progress_towards_break
           > pre.last_mode_state.progress_towards_break

\* A gap after an active state, under a muted presence.
C36_WitnessActive ==
    /\ C36_GapTick
    /\ is_user_active(pre.last_mode_state.idle_state)
    /\ pre.last_mode_state.progress_towards_break > 0
    /\ is_muted(pre)

\* The modes that carry a debounced state.
C37_Debounced(self) == InMode(self, "Normal") \/ InMode(self, "Break")

\* A refresh with an elapsed time of at most 30 s, from and to a mode that
\* carries a debounced state.
C37_Tick ==
    /\ Called("refresh")
    /\ C37_Debounced(pre)
    /\ C37_Debounced(info)
    /\ Elapsed <= Seconds(FRAME_DROP_CUTOFF_POINT_SECS)

\* The debounced state went from state a to state b in the last call.
C37_Went(a, b) ==
    /\ pre.last_mode_state.idle_state.state = a
    /\ info.last_mode_state.idle_state.state = b

\* The last refresh decided at least 3 s after the transitional state it
\* started from was entered (lastOp.arg is the time of the clock read the
\* refresh takes for its cutoff).
C37_ThresholdOver ==
    lastOp.arg >= pre.last_mode_state.idle_state.transitioning_since
                      + Seconds(TRANSITION_THRESHOLD_SECS)

C37_WitnessActive ==
    /\ C37_Tick
    /\ C37_Went("IdleGoingToActive", "Active")

\* The break is over and the work counter starts again.
C38_Ended ==
    /\ InMode(info, "Normal")
    /\ info.last_mode_state.progress_towards_break = 0

\* The user starts to rest during a break.
C38_RestingInBreak == calls = budget - RestCalls /\ InMode(info, "Break")

\* The last call was a refresh of the resting phase.
C38_RestTick == Called("refresh") /\ calls > budget - RestCalls

C38_StandsStill ==
    ( /\ RefreshedFrom("Break")
      /\ pre.last_mode_state.idle_state.state = "ActiveGoingToIdle"
      /\ Sample \in 1 .. TRANSITION_THRESHOLD_SECS
      /\ Elapsed <= Seconds(FRAME_DROP_CUTOFF_POINT_SECS)
      /\ pre.last_mode_state.progress_towards_finish + Elapsed
             < Seconds(pre.break_length_secs) )
    => info.last_mode_state = pre.last_mode_state

\* A break that stands still in ActiveGoingToIdle while the user rests.
C38_WitnessStuck ==
    /\ C38_RestTick
    /\ InMode(info, "Break")
    /\ info.last_mode_state.idle_state.state = "ActiveGoingToIdle"
    /\ calls = budget

\* A break is due: Normal with progress_towards_break at the ceiling.
C39_AtCeiling(self) ==
    /\ InMode(self, "Normal")
    /\ self.last_mode_state.progress_towards_break
           = Seconds(self.time_to_break_secs)

\* A regular tick of an active user: idle sample 0 before and after it and
\* 0 < D < 30 s.
C39_RegularTick ==
    /\ Called("refresh")
    /\ pre.idle_since_seconds = 0
    /\ Sample = 0
    /\ 0 < Elapsed
    /\ Elapsed < Seconds(FRAME_DROP_CUTOFF_POINT_SECS)

\* The regular tick on which a snooze deadline has passed while a break is
\* due.
C39_ExpiryTick ==
    /\ C39_RegularTick
    /\ C39_AtCeiling(pre)
    /\ pre.presence_mode.type = "snoozed_until"
    /\ pre.presence_mode.value < info.last_checked

\* A regular tick that starts with a break due and presence Active.
C39_DueTick ==
    /\ C39_RegularTick
    /\ C39_AtCeiling(pre)
    /\ pre.presence_mode = PresenceActive

\* unmute() leaves a due break due, with presence Active.
C39_Unmute ==
    (Called("unmute") /\ C39_AtCeiling(pre)) =>
        C39_AtCeiling(info) /\ info.presence_mode = PresenceActive

\* With presence Active a due break enters PreBreak on the next regular
\* tick.
C39_DueEnters == C39_DueTick => InMode(info, "PreBreak")

\* The tick on which the deadline has passed enters PreBreak or leaves the
\* break due with presence Active.
C39_ExpiryKeepsDue ==
    C39_ExpiryTick =>
        \/ InMode(info, "PreBreak")
        \/ C39_AtCeiling(info) /\ info.presence_mode = PresenceActive

\* C39: bounded response after presence returns: if the mode is Normal,
\* progress_towards_break is at time_to_break_secs, the user stays active
\* (idle sample 0) and presence becomes Active again, by unmute() or because
\* a SnoozedUntil deadline has passed, then with regular ticks (0 < D < 30 s)
\* the engine enters PreBreak within at most two refreshes: one after
\* unmute(), and after a deadline the tick that finds it passed and the one
\* after it.
C39_WithinTwoRefreshes == C39_Unmute /\ C39_DueEnters /\ C39_ExpiryKeepsDue

\* The last iteration of the monitor loop played the break-end sound.
C40_SoundPlayed == Called("refresh") /\ loop.tracked /\ loop.sound

\* C40: the monitor loop plays the break-end sound only for a break that ran
\* to completion: under every interleaving of skip_break and postpone_break
\* with the refresh loop, the sound is played only by an iteration whose own
\* refresh took the mode from Break to Normal, never after a Break-to-Normal
\* change made by skip_break or postpone_break.
C40_SoundOnlyOnCompletion ==
    C40_SoundPlayed => InMode(pre, "Break") /\ InMode(info, "Normal")

\* The sound is played only when the iteration before saw a Break with a
\* settled Idle state and this one sees Normal.
C40_SoundDecision ==
    C40_SoundPlayed =>
        /\ InMode(info, "Normal")
        /\ InMode(pre, "Break") =>
              pre.last_mode_state.idle_state.state = "Idle"

\* The sound played for a break that ran to completion.
C40_WitnessCompleted == C40_SoundPlayed /\ InMode(pre, "Break")


====
